---- MODULE Spec2Model ----
(***************************************************************************)
(* Model of the gesture core of clutter/clutter/clutter-gesture.c:         *)
(* the per-gesture state machine (set_state, set_state_authoritative),     *)
(* the global arbitration (all_active_gestures, gesture_may_start,         *)
(* maybe_cancel_independent_gestures, maybe_influence_other_gestures),     *)
(* the relationship pairing and the point registry.                        *)
(*                                                                         *)
(* Every action is one call into the gesture code from the outside (the    *)
(* application calling the public API, or the stage dispatching an event)  *)
(* and runs the whole synchronous call chain, cascades included.           *)
(***************************************************************************)
EXTENDS Integers, Sequences, FiniteSets, TLC

\* The gesture instances that exist (bare ClutterGesture objects).
Gestures == {1, 2, 3}

\* ClutterGestureState, clutter-gesture.c state_to_string
WAITING == "WAITING"
POSSIBLE == "POSSIBLE"
RECOGNIZING == "RECOGNIZING"
COMPLETED == "COMPLETED"
CANCELLED == "CANCELLED"
GestureStates == {WAITING, POSSIBLE, RECOGNIZING, COMPLETED, CANCELLED}

\* The state of a gesture whose request to recognize is held back until the
\* gestures it requires to fail have failed (clutter_gesture_require_failure_of)
RECOGNIZE_PENDING == "RECOGNIZE_PENDING"

\* A point is identified by a key (device, sequence): the pointer has no
\* sequence (NULL, written 0), a touchscreen has one sequence per finger.
Device(k) == k[1]

\* Bounds of the model
MaxButtons == 2
MaxCancelLen == 2
MaxOverrides == 2
MaxRequirements == 2
MaxClicks == 2

VARIABLES
  state,                        \* priv->state of each gesture
  points,                       \* priv->points: sequence of GesturePointPrivate
  public_points,                \* priv->public_points: sequence of point keys
  in_relationship_with,         \* priv->in_relationship_with
  cancel_on_recognizing,        \* priv->cancel_on_recognizing (array, in order)
  can_not_cancel,               \* priv->can_not_cancel
  recognize_independently_from, \* priv->recognize_independently_from
  all_active_gestures,          \* the process-wide array
  require_failure_of,           \* the gestures each gesture requires to fail
  pending_request,              \* the request a RECOGNIZE_PENDING gesture holds
  subclass,                     \* the instance data of a gesture subclass
  aborted,                      \* a g_assert failed: the process is gone
  emitted                       \* what the last call emitted, in order

vars == <<state, points, public_points, in_relationship_with,
          cancel_on_recognizing, can_not_cancel, recognize_independently_from,
          all_active_gestures, require_failure_of, pending_request,
          subclass, aborted, emitted>>

\* The part of the state the call chains work on, as one value.
World(mr) ==
  [state |-> state, points |-> points, public_points |-> public_points,
   in_relationship_with |-> in_relationship_with,
   cancel_on_recognizing |-> cancel_on_recognizing,
   can_not_cancel |-> can_not_cancel,
   recognize_independently_from |-> recognize_independently_from,
   all_active_gestures |-> all_active_gestures,
   require_failure_of |-> require_failure_of,
   pending_request |-> pending_request,
   aborted |-> FALSE, emitted |-> <<>>, may_recognize |-> mr]

Commit(w) ==
  /\ state' = w.state
  /\ points' = w.points
  /\ public_points' = w.public_points
  /\ in_relationship_with' = w.in_relationship_with
  /\ cancel_on_recognizing' = w.cancel_on_recognizing
  /\ all_active_gestures' = w.all_active_gestures
  /\ pending_request' = w.pending_request
  /\ aborted' = w.aborted
  /\ emitted' = w.emitted

\* ---- sequence helpers (GArray / GPtrArray) ----

\* g_ptr_array_remove / g_array_remove_index: drop element i, keep the order
RemoveIndex(s, i) == [j \in 1..(Len(s) - 1) |-> IF j < i THEN s[j] ELSE s[j + 1]]

\* index of the first element equal to x, 0 when absent
RECURSIVE IndexFrom(_, _, _)
IndexFrom(s, x, i) ==
  IF i > Len(s) THEN 0
  ELSE IF s[i] = x THEN i
  ELSE IndexFrom(s, x, i + 1)

IndexOf(s, x) == IndexFrom(s, x, 1)

Contains(s, x) == IndexOf(s, x) # 0

\* ---- the state machine ----

\* A failed g_assert aborts the process: nothing after it runs.
Abort(w) == [w EXCEPT !.aborted = TRUE]

\* Faulty variant for C8: the g_assert switch of set_state is compiled out.
NoTransitionAssert(old_state, new_state) == TRUE

\* The g_assert switch at the top of set_state.
TransitionAssertHolds(old_state, new_state) ==
  CASE old_state = WAITING -> new_state = POSSIBLE
    [] old_state = POSSIBLE -> new_state \in {RECOGNIZING, CANCELLED}
    [] old_state = RECOGNIZING -> new_state \in {RECOGNIZING, COMPLETED, CANCELLED}
    [] old_state = COMPLETED -> new_state = WAITING
    [] old_state = CANCELLED -> new_state = WAITING
    \* out of RECOGNIZE_PENDING: promoted, or cancelled
    [] old_state = RECOGNIZE_PENDING -> new_state \in {RECOGNIZING, CANCELLED}

\* Faulty variant for C2: every gesture may start next to a recognizing one.
AlwaysAllowedToStart(w, self, other_gesture) == TRUE

\* Faulty variant for C5: the permission is looked up in the table of the
\* recognizing gesture instead of the table of the gesture that wants to start.
AllowedToStartReversed(w, self, other_gesture) ==
  other_gesture \in w.recognize_independently_from[self]

other_gesture_allowed_to_start(w, self, other_gesture) ==
  \* no subclass hooks on a bare gesture: should_start stays FALSE
  self \in w.recognize_independently_from[other_gesture]

\* Faulty variant for C3: the recognizing gestures are not consulted.
NoArbitration(w, self) == TRUE

new_gesture_allowed_to_start(w, self) ==
  \A i \in 1..Len(w.all_active_gestures) :
    LET existing_gesture == w.all_active_gestures[i] IN
      \/ existing_gesture = self
      \/ self \in w.in_relationship_with[existing_gesture]
      \/ w.state[existing_gesture] # RECOGNIZING
      \/ other_gesture_allowed_to_start(w, existing_gesture, self)

gesture_may_start(w, self) ==
  /\ new_gesture_allowed_to_start(w, self)
  /\ w.may_recognize[self]

\* clutter_stage_set_sequence_claimed_by_gesture for every point, in order
RECURSIVE ClaimPoints(_, _, _)
ClaimPoints(w, self, i) ==
  IF i > Len(w.points[self]) THEN w
  ELSE ClaimPoints([w EXCEPT !.emitted = Append(@,
                      [type |-> "claim", gesture |-> self,
                       key |-> w.points[self][i].key])], self, i + 1)

\* The tail of set_state for new_state = WAITING
EnterWaiting(w, self, new_state) ==
  IF w.aborted \/ new_state # WAITING THEN w
  ELSE IF ~Contains(w.all_active_gestures, self) THEN Abort(w)
  ELSE IF \E other \in w.in_relationship_with[self] :
            self \notin w.in_relationship_with[other] THEN Abort(w)
  ELSE [w EXCEPT
          !.all_active_gestures = RemoveIndex(@, IndexOf(@, self)),
          !.points[self] = <<>>,
          !.in_relationship_with =
             [g \in Gestures |->
                IF g = self THEN {}
                ELSE IF g \in w.in_relationship_with[self] THEN @[g] \ {self}
                ELSE @[g]],
          !.cancel_on_recognizing[self] = <<>>]

\* state_changed vfunc and notify::state, at the end of set_state; seen is
\* what clutter_gesture_get_state answers for each gesture inside the handlers
NotifyState(w, self, old_state, new_state) ==
  IF w.aborted THEN w
  ELSE [w EXCEPT !.emitted = Append(@, [type |-> "state", gesture |-> self,
                                        old |-> old_state, new |-> new_state,
                                        seen |-> w.state])]

RECURSIVE set_state(_, _, _)
RECURSIVE set_state_authoritative(_, _, _)
RECURSIVE maybe_cancel_independent_gestures_from(_, _, _)
RECURSIVE maybe_influence_other_gestures_from(_, _, _, _)

maybe_move_to_waiting(w, self) ==
  IF w.aborted THEN w
  ELSE IF Len(w.points[self]) = 0 /\ w.state[self] \in {COMPLETED, CANCELLED}
  THEN set_state(w, self, WAITING)
  ELSE w

\* Faulty variant for C4: the loop of maybe_cancel_independent_gestures
\* cancels nothing.
CancelNoIndependent(w, self, i) == w

\* The body of the loop of maybe_cancel_independent_gestures for index i
CancelIfIndependent(w, self, i) ==
  IF i >= Len(w.all_active_gestures) THEN w
  ELSE IF w.all_active_gestures[i + 1] = self THEN w
  ELSE IF w.all_active_gestures[i + 1] \in w.in_relationship_with[self] THEN w
  ELSE IF /\ w.state[w.all_active_gestures[i + 1]] = POSSIBLE
          /\ ~other_gesture_allowed_to_start(w, self, w.all_active_gestures[i + 1])
  THEN set_state_authoritative(w, w.all_active_gestures[i + 1], CANCELLED)
  ELSE w

\* The loop of maybe_cancel_independent_gestures, from index i (0-based) down
maybe_cancel_independent_gestures_from(w, self, i) ==
  IF w.aborted \/ i < 0 THEN w
  ELSE maybe_cancel_independent_gestures_from(CancelIfIndependent(w, self, i),
                                              self, i - 1)

maybe_cancel_independent_gestures(w, self) ==
  maybe_cancel_independent_gestures_from(w, self, Len(w.all_active_gestures) - 1)

\* The block of set_state for new_state = RECOGNIZING
EnterRecognizing(w, self, new_state) ==
  IF w.aborted \/ new_state # RECOGNIZING THEN w
  ELSE IF Len(w.points[self]) # Len(w.public_points[self]) THEN Abort(w)
  ELSE maybe_cancel_independent_gestures(ClaimPoints(w, self, 1), self)

\* Faulty variant for C12: the public points survive COMPLETED and CANCELLED.
KeepPublicPoints(w, self, new_state) == w

\* The block of set_state for new_state = COMPLETED or CANCELLED
DropPublicPoints(w, self, new_state) ==
  IF w.aborted \/ new_state \notin {CANCELLED, COMPLETED} THEN w
  ELSE [w EXCEPT !.public_points[self] = <<>>]

\* The debug_message of gesture_may_start when it answers FALSE
NoteRefused(w, self) ==
  [w EXCEPT !.emitted = Append(@, [type |-> "refused", gesture |-> self])]

\* set_state from "old_state = priv->state" on
ChangeState(w, self, new_state) ==
  NotifyState(
    EnterWaiting(
      DropPublicPoints(
        EnterRecognizing([w EXCEPT !.state[self] = new_state], self, new_state),
        self, new_state),
      self, new_state),
    self, w.state[self], new_state)

\* Faulty variant for C10: the refusal cancels the gesture but set_state does
\* not return and goes on into RECOGNIZING.
RefuseAndContinue(w, self) ==
  ChangeState(set_state(NoteRefused(w, self), self, CANCELLED), self, RECOGNIZING)

\* POSSIBLE -> RECOGNIZING refused by gesture_may_start
RefuseRecognizing(w, self) == set_state(NoteRefused(w, self), self, CANCELLED)

\* WAITING -> POSSIBLE allowed: g_ptr_array_add (all_active_gestures, self)
AddActive(w, self, new_state) ==
  IF w.state[self] = WAITING /\ new_state = POSSIBLE
  THEN [w EXCEPT !.all_active_gestures = Append(@, self)]
  ELSE w

set_state(w, self, new_state) ==
  IF w.aborted THEN w
  ELSE IF w.state[self] = new_state /\ new_state # RECOGNIZING THEN w
  ELSE IF ~TransitionAssertHolds(w.state[self], new_state) THEN Abort(w)
  ELSE IF w.state[self] = WAITING /\ new_state = POSSIBLE
          /\ ~gesture_may_start(w, self)
  THEN NoteRefused(w, self)
  ELSE IF w.state[self] = POSSIBLE /\ new_state = RECOGNIZING
          /\ ~gesture_may_start(w, self)
  THEN RefuseRecognizing(w, self)
  ELSE ChangeState(AddActive(w, self, new_state), self, new_state)

\* The body of the loop of maybe_influence_other_gestures for one entry
InfluenceOther(w, self, other_gesture) ==
  IF other_gesture \notin w.in_relationship_with[self] THEN w
  ELSE maybe_move_to_waiting(set_state(w, other_gesture, CANCELLED),
                             other_gesture)

\* The loop of maybe_influence_other_gestures over the saved array contents
maybe_influence_other_gestures_from(w, self, list, i) ==
  IF w.aborted \/ i > Len(list) THEN w
  ELSE maybe_influence_other_gestures_from(InfluenceOther(w, self, list[i]),
                                           self, list, i + 1)

\* Faulty variant for C1: the cancel_on_recognizing list is not walked.
InfluenceNoOne(w, self) == w

maybe_influence_other_gestures(w, self) ==
  IF w.aborted THEN w
  ELSE IF w.state[self] \in {RECOGNIZING, COMPLETED}
  THEN maybe_influence_other_gestures_from(
         [w EXCEPT !.cancel_on_recognizing[self] = <<>>], self,
         w.cancel_on_recognizing[self], 1)
  ELSE w

\* Faulty variant for C7: the jump to COMPLETED stops at RECOGNIZING.
StopAtRecognizing(w, self) == w

\* set_state_authoritative after its first set_state, when the request was
\* COMPLETED from a state other than RECOGNIZING
CompleteAfterRecognizing(w, self) ==
  IF w.aborted THEN w
  ELSE IF w.state[self] = RECOGNIZING THEN set_state(w, self, COMPLETED)
  ELSE IF w.state[self] # CANCELLED THEN Abort(w)
  ELSE w

\* set_state_authoritative after its set_state: the calls that follow
AfterSetState(w, self, through_recognizing) ==
  IF w.aborted THEN w
  ELSE IF through_recognizing \/ w.state[self] \in {RECOGNIZING, CANCELLED}
  THEN maybe_influence_other_gestures(w, self)
  ELSE w

set_state_authoritative(w, self, new_state) ==
  IF w.aborted THEN w
  ELSE IF w.state[self] # RECOGNIZING /\ new_state = COMPLETED
  THEN maybe_move_to_waiting(
         AfterSetState(
           CompleteAfterRecognizing(set_state(w, self, RECOGNIZING), self),
           self, TRUE),
         self)
  ELSE maybe_move_to_waiting(
         AfterSetState(set_state(w, self, new_state), self, FALSE), self)

\* Faulty variant for C9: clutter_gesture_set_state passes every request on.
AnyRequestAccepted(cur, req) == TRUE

\* The (current, requested) pairs clutter_gesture_set_state passes on
RequestAccepted(cur, req) ==
  \/ cur = WAITING /\ req = POSSIBLE
  \/ cur = POSSIBLE /\ req \in {RECOGNIZING, COMPLETED, CANCELLED}
  \/ cur = RECOGNIZING /\ req \in {RECOGNIZING, COMPLETED, CANCELLED}
  \/ cur = COMPLETED /\ req = WAITING
  \/ cur = CANCELLED /\ req = WAITING

\* The g_warning of clutter_gesture_set_state for a request it drops; a
\* request for CANCELLED is dropped without it
WarnInvalid(w, self, new_state) ==
  IF new_state = CANCELLED THEN w
  ELSE [w EXCEPT !.emitted = Append(@, [type |-> "invalid"])]

\* The least element of a nonempty set of gestures
First(S) == CHOOSE x \in S : \A y \in S : x <= y

\* ---- failure requirements (clutter_gesture_require_failure_of) ----
\* clutter-gesture.h declares the call; the engine behind it is modelled from
\* its description and from what conform/gesture-relationship.c expects of it.

\* self requires a gesture to fail that has neither failed nor finished
Unresolved(w, self) ==
  \E other \in w.require_failure_of[self] :
    w.state[other] \in {POSSIBLE, RECOGNIZE_PENDING, RECOGNIZING}

\* Faulty variant for C21: a request is never held back.
NeverHeldBack(w, self, new_state) == FALSE

\* The request of self for new_state has to wait
HeldBack(w, self, new_state) ==
  /\ w.state[self] = POSSIBLE
  /\ new_state \in {RECOGNIZING, COMPLETED}
  /\ Unresolved(w, self)

\* POSSIBLE -> RECOGNIZE_PENDING, the request is kept for later
EnterPending(w, self, new_state) ==
  NotifyState([w EXCEPT !.state[self] = RECOGNIZE_PENDING,
                        !.pending_request[self] = new_state],
              self, POSSIBLE, RECOGNIZE_PENDING)

\* Every gesture self requires to fail has failed: the kept request goes on
Promote(w, self) ==
  set_state_authoritative([w EXCEPT !.pending_request[self] = ""], self,
                          w.pending_request[self])

\* A gesture self requires to fail has recognized
CancelPending(w, self) ==
  set_state_authoritative([w EXCEPT !.pending_request[self] = ""], self,
                          CANCELLED)

\* The call has notified other entering one of the states in news
HasEntered(w, other, news) ==
  \E i \in 1..Len(w.emitted) :
    /\ w.emitted[i].type = "state"
    /\ w.emitted[i].gesture = other
    /\ w.emitted[i].new \in news
    /\ w.emitted[i].old # w.emitted[i].new

\* Faulty variant for C23: a pending gesture outlives the recognition of a
\* gesture it requires to fail.
NoneToCancel(w) == {}

\* The pending gestures that have seen a gesture they require to fail
\* recognize during the call
ToCancel(w) ==
  {g \in Gestures :
     /\ w.state[g] = RECOGNIZE_PENDING
     /\ \E other \in w.require_failure_of[g] :
          HasEntered(w, other, {RECOGNIZING, COMPLETED})}

\* Faulty variant for C22: a pending gesture is never promoted.
NoneToPromote(w) == {}

\* The pending gestures that have seen a gesture they require to fail fail
\* during the call and have none left to wait for
ToPromote(w) ==
  {g \in Gestures :
     /\ w.state[g] = RECOGNIZE_PENDING
     /\ ~Unresolved(w, g)
     /\ \E other \in w.require_failure_of[g] : HasEntered(w, other, {CANCELLED})}

\* A gesture that left RECOGNIZE_PENDING holds no request any more
DropStaleRequests(w) ==
  [w EXCEPT !.pending_request =
     [g \in Gestures |-> IF w.state[g] = RECOGNIZE_PENDING THEN @[g] ELSE ""]]

\* The watchers, run once the cascade of the change of state has been walked:
\* a pending gesture is cancelled for a required gesture that recognized
\* before one is promoted for the required gestures that failed, and what the
\* watchers change is watched in turn.
RECURSIVE ResolveRequirements(_)
ResolveRequirements(w) ==
  IF w.aborted THEN DropStaleRequests(w)
  ELSE IF ToCancel(w) # {}
  THEN ResolveRequirements(CancelPending(w, First(ToCancel(w))))
  ELSE IF ToPromote(w) # {}
  THEN ResolveRequirements(Promote(w, First(ToPromote(w))))
  ELSE DropStaleRequests(w)

\* clutter_gesture_set_state for a gesture that may require others to fail
request_state(w, self, new_state) ==
  IF HeldBack(w, self, new_state) THEN EnterPending(w, self, new_state)
  ELSE IF RequestAccepted(w.state[self], new_state)
  THEN set_state_authoritative(w, self, new_state)
  ELSE WarnInvalid(w, self, new_state)

\* ---- the point registry ----

\* Event types handled by clutter_gesture_handle_event
BUTTON_PRESS == "BUTTON_PRESS"
MOTION == "MOTION"
BUTTON_RELEASE == "BUTTON_RELEASE"
TOUCH_BEGIN == "TOUCH_BEGIN"
TOUCH_UPDATE == "TOUCH_UPDATE"
TOUCH_END == "TOUCH_END"
TOUCH_CANCEL == "TOUCH_CANCEL"
ENTER == "ENTER"
LEAVE == "LEAVE"

\* n_buttons_pressed is an unsigned int; the model keeps its 32-bit pattern
\* as a signed number, so that 0 - 1 is -1 (UINT_MAX) and an unsigned
\* comparison n >= c with a small c reads n < 0 \/ n >= c.
UnsignedAtLeast(n, c) == n < 0 \/ n >= c

\* index into priv->points of the point with this key, 0 when there is none
RECURSIVE PointIndexFrom(_, _, _)
PointIndexFrom(pts, key, i) ==
  IF i > Len(pts) THEN 0
  ELSE IF pts[i].key = key THEN i
  ELSE PointIndexFrom(pts, key, i + 1)

find_point(w, self, key) == PointIndexFrom(w.points[self], key, 1)

\* find_point's public_point out-parameter: an index, 0 for NULL
find_public_point(w, self, key) ==
  LET i == find_point(w, self, key) IN
    IF i # 0 /\ i <= Len(w.public_points[self]) THEN i ELSE 0

register_point(w, self, key) ==
  [w EXCEPT !.points[self] =
     Append(@, [key |-> key, source_device |-> Device(key),
                n_buttons_pressed |-> 0])]

\* Faulty variant for C16: unregister_point finds no point to remove.
RemoveNoPoint(w, self, i) == w

\* The loop of unregister_point: drop the point at index i (0: not found)
RemovePoint(w, self, i) ==
  IF i = 0 THEN w
  ELSE [w EXCEPT
          !.points[self] = RemoveIndex(@, i),
          !.public_points[self] = IF i <= Len(@) THEN RemoveIndex(@, i) ELSE @]

\* The end of unregister_point
WaitingIfNoPoints(w, self) ==
  IF Len(w.points[self]) = 0 /\ w.state[self] \in {COMPLETED, CANCELLED}
  THEN set_state_authoritative(w, self, WAITING)
  ELSE w

unregister_point(w, self, key) ==
  WaitingIfNoPoints(RemovePoint(w, self, find_point(w, self, key)), self)

\* The ClutterGestureClass of a bare ClutterGesture sets none of the
\* points_* and crossing_event vfuncs (clutter_gesture_class_init)
ClassHasVfunc(vfunc) == FALSE

\* emit_points_vfunc: a points_* or crossing_event call with its points
EmitPoints(w, self, vfunc, pubs) ==
  IF ClassHasVfunc(vfunc)
  THEN [w EXCEPT !.emitted = Append(@, [type |-> vfunc, gesture |-> self,
                                        points |-> pubs])]
  ELSE w

\* cancel_points_by_sequences for one point: key stands for the device and
\* the sequence the loops compare with (n_sequences is 0 for the pointer,
\* whose sequence is NULL, and 1 for a touch sequence)
cancel_points_by_sequences(w, self, key) ==
  IF w.aborted THEN w
  ELSE IF w.state[self] \in {CANCELLED, COMPLETED}
  THEN IF Len(w.public_points[self]) # 0 THEN Abort(w)
       ELSE unregister_point(w, self, key)
  ELSE IF find_public_point(w, self, key) = 0 THEN w
  ELSE unregister_point(
         EmitPoints(w, self, "points_cancelled",
                    <<w.public_points[self][find_public_point(w, self, key)]>>),
         self, key)

\* The name of the vfunc the switch of clutter_gesture_handle_event calls
VfuncOf(type) ==
  CASE type \in {BUTTON_PRESS, TOUCH_BEGIN} -> "points_began"
    [] type \in {MOTION, TOUCH_UPDATE} -> "points_moved"
    [] type \in {BUTTON_RELEASE, TOUCH_END} -> "points_ended"
    [] type = TOUCH_CANCEL -> "points_cancelled"
    [] type \in {ENTER, LEAVE} -> "crossing_event"

\* The events after which clutter_gesture_handle_event unregisters the point
EndsPoint(type) == type \in {BUTTON_RELEASE, TOUCH_END, TOUCH_CANCEL}

\* The switch of clutter_gesture_handle_event up to the vfunc call
HandleEventSwitch(w, self, event, public_point) ==
  IF event.type \in {BUTTON_PRESS, TOUCH_BEGIN}
  THEN IF public_point # 0 THEN Abort(w)
       ELSE EmitPoints([w EXCEPT !.public_points[self] = Append(@, event.key)],
                       self, VfuncOf(event.type), <<event.key>>)
  ELSE IF event.type \in {ENTER, LEAVE} /\ public_point = 0 THEN w
  ELSE IF public_point = 0 THEN Abort(w)
  ELSE EmitPoints(w, self, VfuncOf(event.type),
                  <<w.public_points[self][public_point]>>)

\* n_buttons_pressed++ / n_buttons_pressed-- of clutter_gesture_handle_event
CountButtons(w, self, event, i) ==
  IF event.type = BUTTON_PRESS
  THEN [w EXCEPT !.points[self][i].n_buttons_pressed = @ + 1]
  ELSE IF event.type = BUTTON_RELEASE
  THEN [w EXCEPT !.points[self][i].n_buttons_pressed = @ - 1]
  ELSE w

\* Faulty variant for C20: the two returns that follow the button counting
\* are missing.
HandleEveryButtonEvent(w, self, event, i, public_point) ==
  IF w.state[self] \in {CANCELLED, COMPLETED}
  THEN IF Len(w.public_points[self]) # 0 THEN Abort(w) ELSE w
  ELSE HandleEventSwitch(w, self, event, public_point)

\* clutter_gesture_handle_event after the button counting, up to the point
\* where the point may be unregistered
HandleCountedEvent(w, self, event, i, public_point) ==
  IF /\ event.type = BUTTON_PRESS
     /\ UnsignedAtLeast(w.points[self][i].n_buttons_pressed, 2) THEN w
  ELSE IF /\ event.type = BUTTON_RELEASE
          /\ UnsignedAtLeast(w.points[self][i].n_buttons_pressed, 1) THEN w
  ELSE IF w.state[self] \in {CANCELLED, COMPLETED}
  THEN IF Len(w.public_points[self]) # 0 THEN Abort(w) ELSE w
  ELSE HandleEventSwitch(w, self, event, public_point)

\* Whether clutter_gesture_handle_event returned before its unregister_point
ReturnedEarly(w, self, event, i) ==
  \/ event.type = BUTTON_PRESS
       /\ UnsignedAtLeast(w.points[self][i].n_buttons_pressed + 1, 2)
  \/ event.type = BUTTON_RELEASE
       /\ UnsignedAtLeast(w.points[self][i].n_buttons_pressed - 1, 1)

\* The unregister_point calls of clutter_gesture_handle_event
UnregisterIfEnded(w, self, event, early) ==
  IF w.aborted \/ early \/ ~EndsPoint(event.type) THEN w
  ELSE unregister_point(w, self, event.key)

clutter_gesture_handle_event(w, self, event) ==
  IF w.aborted \/ event.synthetic THEN w
  ELSE IF find_point(w, self, event.key) = 0 THEN w
  ELSE IF w.state[self] = WAITING THEN Abort(w)
  ELSE UnregisterIfEnded(
         HandleCountedEvent(
           CountButtons(w, self, event, find_point(w, self, event.key)),
           self, event, find_point(w, self, event.key),
           find_public_point(w, self, event.key)),
         self, event,
         ReturnedEarly(w, self, event, find_point(w, self, event.key)))

\* clutter_gesture_should_handle_sequence for a gesture without points: the
\* result of its set_state_authoritative (POSSIBLE) decides
AcceptIfPossible(w, self, event) ==
  IF w.aborted \/ w.state[self] # POSSIBLE THEN [w |-> w, ret |-> FALSE]
  ELSE [w |-> register_point(w, self, event.key), ret |-> TRUE]

\* clutter_gesture_should_handle_sequence: the world after the call and
\* the value returned
clutter_gesture_should_handle_sequence(w, self, event) ==
  IF w.aborted THEN [w |-> w, ret |-> FALSE]
  ELSE IF w.state[self] = CANCELLED THEN [w |-> w, ret |-> FALSE]
  ELSE IF /\ Len(w.points[self]) > 0
          /\ w.points[self][1].source_device # Device(event.key)
  THEN [w |-> w, ret |-> FALSE]
  ELSE \* every device type of the model is in the default allowed_device_types
    IF Len(w.points[self]) = 0 /\ w.state[self] = WAITING
    THEN AcceptIfPossible(set_state_authoritative(w, self, POSSIBLE), self, event)
    ELSE [w |-> register_point(w, self, event.key), ret |-> TRUE]

\* ---- relationship pairing ----

\* Faulty variant for C6: can_not_cancel is not looked at when pairing.
AlwaysInfluence(w, self, other_gesture) == TRUE

setup_influence_on_other_gesture(w, self, other_gesture) ==
  \* no should_influence / should_be_influenced_by on a bare gesture
  IF other_gesture \in w.can_not_cancel[self] THEN FALSE ELSE TRUE

\* The hint clutter_gesture_setup_sequence_relationship returns
RelationshipHint(cancel_1_on_recognizing, cancel_2_on_recognizing) ==
  IF cancel_2_on_recognizing /\ ~cancel_1_on_recognizing THEN -1
  ELSE IF ~cancel_2_on_recognizing /\ cancel_1_on_recognizing THEN 1
  ELSE 0

\* Faulty variant for C14: the pairing records the relationship on gesture_1
\* only.
PairOneWay(w, gesture_1, gesture_2, key) ==
  [w |-> [w EXCEPT !.in_relationship_with[gesture_1] = @ \cup {gesture_2}],
   ret |-> 0]

clutter_gesture_setup_sequence_relationship(w, gesture_1, gesture_2, key) ==
  IF w.aborted THEN [w |-> w, ret |-> 0]
  ELSE IF find_point(w, gesture_1, key) = 0 \/ find_point(w, gesture_2, key) = 0
  THEN [w |-> Abort(w), ret |-> 0]
  ELSE IF gesture_2 \in w.in_relationship_with[gesture_1]
  THEN [w |-> w,
        ret |-> RelationshipHint(
                  Contains(w.cancel_on_recognizing[gesture_2], gesture_1),
                  Contains(w.cancel_on_recognizing[gesture_1], gesture_2))]
  ELSE [w |-> [w EXCEPT
                 !.in_relationship_with[gesture_1] = @ \cup {gesture_2},
                 !.in_relationship_with[gesture_2] = @ \cup {gesture_1},
                 !.cancel_on_recognizing[gesture_1] =
                    IF setup_influence_on_other_gesture(w, gesture_1, gesture_2)
                    THEN Append(@, gesture_2) ELSE @,
                 !.cancel_on_recognizing[gesture_2] =
                    IF setup_influence_on_other_gesture(w, gesture_2, gesture_1)
                    THEN Append(@, gesture_1) ELSE @],
        ret |-> RelationshipHint(
                  setup_influence_on_other_gesture(w, gesture_2, gesture_1),
                  setup_influence_on_other_gesture(w, gesture_1, gesture_2))]

\* ---- the stage's dispatch of one event to the gestures ----

\* One answer of clutter_gesture_should_handle_sequence taken into account
Offered(r, g, accepted) ==
  [w |-> r.w, accepted |-> IF r.ret THEN accepted \cup {g} ELSE accepted]

\* The actions of the picked actor chain, in the order the stage asks them
RECURSIVE OfferSequence(_, _, _)
OfferSequence(acc, event, todo) ==
  IF todo = {} THEN acc
  ELSE OfferSequence(
         Offered(clutter_gesture_should_handle_sequence(acc.w, First(todo), event),
                 First(todo), acc.accepted),
         event, todo \ {First(todo)})

\* The least pair of a nonempty set of pairs, in lexicographic order
FirstPair(pairs) ==
  CHOOSE x \in pairs :
    \A y \in pairs : x[1] < y[1] \/ (x[1] = y[1] /\ x[2] <= y[2])

\* Every pair of actions that took the sequence is paired once
RECURSIVE PairAll(_, _, _)
PairAll(w, key, pairs) ==
  IF pairs = {} THEN w
  ELSE PairAll(clutter_gesture_setup_sequence_relationship(
                 w, FirstPair(pairs)[1], FirstPair(pairs)[2], key).w,
               key, pairs \ {FirstPair(pairs)})

RECURSIVE DeliverAll(_, _, _)
DeliverAll(w, event, todo) ==
  IF todo = {} THEN w
  ELSE DeliverAll(clutter_gesture_handle_event(w, First(todo), event),
                  event, todo \ {First(todo)})

\* The sequences_cancelled vfunc called on every action, in order
RECURSIVE CancelAll(_, _, _)
CancelAll(w, key, todo) ==
  IF todo = {} THEN w
  ELSE CancelAll(cancel_points_by_sequences(w, First(todo), key),
                 key, todo \ {First(todo)})

BeginType(key) == IF Device(key) = "pointer" THEN BUTTON_PRESS ELSE TOUCH_BEGIN

FollowTypes(key) ==
  IF Device(key) = "pointer" THEN {BUTTON_PRESS, MOTION, BUTTON_RELEASE, ENTER, LEAVE}
  ELSE {TOUCH_UPDATE, TOUCH_END, TOUCH_CANCEL, ENTER, LEAVE}

Holders(key) == {g \in Gestures : \E i \in 1..Len(points[g]) : points[g][i].key = key}

\* The pairing and the delivery that follow the offers
PairAndDeliver(acc, event) ==
  DeliverAll(PairAll(acc.w, event.key,
                     {p \in acc.accepted \X acc.accepted : p[1] < p[2]}),
             event, acc.accepted)

DispatchBegin(w, event, offered) ==
  PairAndDeliver(OfferSequence([w |-> w, accepted |-> {}], event, offered), event)

\* ---- the calls ----

AllTrue == [g \in Gestures |-> TRUE]

\* clutter_gesture_set_state (self, new_state); mr is what the handlers of
\* may-recognize answer if the signal is emitted during the call
clutter_gesture_set_state(self, new_state, mr) ==
  /\ ~aborted
  /\ LET w == World([AllTrue EXCEPT ![self] = mr]) IN
       Commit(IF RequestAccepted(state[self], new_state)
              THEN set_state_authoritative(w, self, new_state)
              ELSE WarnInvalid(w, self, new_state))
  /\ UNCHANGED <<can_not_cancel, recognize_independently_from,
                 require_failure_of, subclass>>

\* A new sequence (button press or touch begin) picked on an actor chain
\* whose gesture actions are "offered"
SequenceBegin(key, offered, synthetic, vetoers) ==
  /\ ~aborted
  /\ Holders(key) = {}
  /\ offered # {}
  /\ vetoers \subseteq offered
  /\ LET event == [type |-> BeginType(key), key |-> key, synthetic |-> synthetic]
         w == DispatchBegin(World([g \in Gestures |-> g \notin vetoers]),
                            event, offered)
     IN /\ \A g \in Gestures : Len(w.cancel_on_recognizing[g]) <= MaxCancelLen
        /\ Commit(w)
  /\ UNCHANGED <<can_not_cancel, recognize_independently_from,
                 require_failure_of, subclass>>

\* A further event of a sequence that is in flight
SequenceEvent(key, type, synthetic) ==
  /\ ~aborted
  /\ Holders(key) # {}
  /\ type \in FollowTypes(key)
  /\ type = BUTTON_PRESS =>
       \A g \in Holders(key) : \A i \in 1..Len(points[g]) :
         points[g][i].n_buttons_pressed < MaxButtons
  /\ LET event == [type |-> type, key |-> key, synthetic |-> synthetic]
     IN Commit(DeliverAll(World(AllTrue), event, Gestures))
  /\ UNCHANGED <<can_not_cancel, recognize_independently_from,
                 require_failure_of, subclass>>

\* The stage cancels a sequence that is in flight
SequencesCancelled(key) ==
  /\ ~aborted
  /\ Holders(key) # {}
  /\ Commit(CancelAll(World(AllTrue), key, Gestures))
  /\ UNCHANGED <<can_not_cancel, recognize_independently_from,
                 require_failure_of, subclass>>

NumOverrides ==
  LET RECURSIVE Sum(_)
      Sum(S) == IF S = {} THEN 0
                ELSE LET g == CHOOSE x \in S : TRUE
                     IN Cardinality(can_not_cancel[g])
                        + Cardinality(recognize_independently_from[g])
                        + Sum(S \ {g})
  IN Sum(Gestures)

clutter_gesture_can_not_cancel(self, other_gesture) ==
  /\ ~aborted
  /\ NumOverrides < MaxOverrides
  /\ other_gesture \notin can_not_cancel[self]
  /\ can_not_cancel' = [can_not_cancel EXCEPT ![self] = @ \cup {other_gesture}]
  /\ emitted' = <<>>
  /\ UNCHANGED <<state, points, public_points, in_relationship_with,
                 cancel_on_recognizing, recognize_independently_from,
                 all_active_gestures, require_failure_of, pending_request,
                 subclass, aborted>>

clutter_gesture_recognize_independently_from(self, other_gesture) ==
  /\ ~aborted
  /\ NumOverrides < MaxOverrides
  /\ other_gesture \notin recognize_independently_from[self]
  /\ recognize_independently_from' =
       [recognize_independently_from EXCEPT ![self] = @ \cup {other_gesture}]
  /\ emitted' = <<>>
  /\ UNCHANGED <<state, points, public_points, in_relationship_with,
                 cancel_on_recognizing, can_not_cancel,
                 all_active_gestures, require_failure_of, pending_request,
                 subclass, aborted>>

NumRequirements ==
  LET RECURSIVE Sum(_)
      Sum(S) == IF S = {} THEN 0
                ELSE LET g == CHOOSE x \in S : TRUE
                     IN Cardinality(require_failure_of[g]) + Sum(S \ {g})
  IN Sum(Gestures)

\* clutter_gesture_require_failure_of (self, other_gesture)
clutter_gesture_require_failure_of(self, other_gesture) ==
  /\ ~aborted
  /\ NumRequirements < MaxRequirements
  /\ other_gesture \notin require_failure_of[self]
  /\ require_failure_of' =
       [require_failure_of EXCEPT ![self] = @ \cup {other_gesture}]
  /\ emitted' = <<>>
  /\ UNCHANGED <<state, points, public_points, in_relationship_with,
                 cancel_on_recognizing, can_not_cancel,
                 recognize_independently_from, all_active_gestures,
                 pending_request, subclass, aborted>>

\* clutter_gesture_set_state (self, new_state) of the engine that knows
\* failure requirements: the request, then the watchers
RequestState(self, new_state, mr) ==
  /\ ~aborted
  /\ Commit(ResolveRequirements(
              request_state(World([AllTrue EXCEPT ![self] = mr]), self,
                            new_state)))
  /\ UNCHANGED <<can_not_cancel, recognize_independently_from,
                 require_failure_of, subclass>>

\* The gestures in relationship with self that self is to cancel and that
\* are missing on its array, in the order they are appended
RECURSIVE MissingFrom(_, _)
MissingFrom(self, todo) ==
  IF todo = {} THEN <<>>
  ELSE IF /\ setup_influence_on_other_gesture(World(AllTrue), self, First(todo))
          /\ ~Contains(cancel_on_recognizing[self], First(todo))
  THEN <<First(todo)>> \o MissingFrom(self, todo \ {First(todo)})
  ELSE MissingFrom(self, todo \ {First(todo)})

\* The array of self when the decisions on the gestures in others are made again
Redecide(self, others) ==
  SelectSeq(cancel_on_recognizing[self],
            LAMBDA x : x \notin others
                       \/ setup_influence_on_other_gesture(World(AllTrue), self, x))
    \o MissingFrom(self, others)

\* Faulty variant for C25: the decisions made at pairing time stay.
KeepDecisions(self) == cancel_on_recognizing

\* The decisions of every pair self is part of are made again
DecisionsAfterChange(self) ==
  [g \in Gestures |->
     IF g = self THEN Redecide(self, in_relationship_with[self])
     ELSE IF g \in in_relationship_with[self] THEN Redecide(g, {self})
     ELSE cancel_on_recognizing[g]]

\* clutter_gesture_relationships_changed (self)
clutter_gesture_relationships_changed(self) ==
  /\ ~aborted
  /\ cancel_on_recognizing' = DecisionsAfterChange(self)
  /\ emitted' = <<>>
  /\ UNCHANGED <<state, points, public_points, in_relationship_with,
                 can_not_cancel, recognize_independently_from,
                 all_active_gestures, require_failure_of, pending_request,
                 subclass, aborted>>

\* A bare ClutterGesture has no instance data of its own
NoSubclass == [type |-> "ClutterGesture"]

\* clutter_gesture_init for every gesture, and the empty process-wide array
InitGesture ==
  /\ state = [g \in Gestures |-> WAITING]
  /\ points = [g \in Gestures |-> <<>>]
  /\ public_points = [g \in Gestures |-> <<>>]
  /\ in_relationship_with = [g \in Gestures |-> {}]
  /\ cancel_on_recognizing = [g \in Gestures |-> <<>>]
  /\ can_not_cancel = [g \in Gestures |-> {}]
  /\ recognize_independently_from = [g \in Gestures |-> {}]
  /\ all_active_gestures = <<>>
  /\ require_failure_of = [g \in Gestures |-> {}]
  /\ pending_request = [g \in Gestures |-> ""]
  /\ aborted = FALSE
  /\ emitted = <<>>

Init == InitGesture /\ subclass = NoSubclass

\* ---- specifications ----

AllKeys == {<<"pointer", 0>>, <<"touch", 1>>, <<"touch", 2>>}
EventTypes == {BUTTON_PRESS, MOTION, BUTTON_RELEASE, TOUCH_UPDATE, TOUCH_END,
               TOUCH_CANCEL, ENTER, LEAVE}

SetState(G) ==
  \E g \in G, s \in GestureStates, mr \in BOOLEAN :
    clutter_gesture_set_state(g, s, mr)

Begin(G, K, Syn) ==
  \E k \in K, offered \in SUBSET G, synthetic \in Syn, vetoers \in SUBSET G :
    SequenceBegin(k, offered, synthetic, vetoers)

Event(K, Syn) ==
  \E k \in K, type \in EventTypes, synthetic \in Syn :
    SequenceEvent(k, type, synthetic)

CanNotCancel(G) ==
  \E a, b \in G : a # b /\ clutter_gesture_can_not_cancel(a, b)

RecognizeIndependentlyFrom(G) ==
  \E a, b \in G : a # b /\ clutter_gesture_recognize_independently_from(a, b)

Pair == {1, 2}
OneTouch == {<<"touch", 1>>}

\* Two gestures and every kind of point; no override is declared
Next ==
  \/ SetState(Pair)
  \/ Begin(Pair, AllKeys, {FALSE})
  \/ Event(AllKeys, {FALSE})

Spec == Init /\ [][Next]_vars

\* Two gestures on one touch point, with the override API in use
NextOverrides ==
  \/ SetState(Pair)
  \/ Begin(Pair, OneTouch, {FALSE})
  \/ Event(OneTouch, {FALSE})
  \/ CanNotCancel(Pair)
  \/ RecognizeIndependentlyFrom(Pair)

SpecOverrides == Init /\ [][NextOverrides]_vars

\* Three gestures on one touch point; no override is declared
NextTrio ==
  \/ SetState(Gestures)
  \/ Begin(Gestures, OneTouch, {FALSE})
  \/ Event(OneTouch, {FALSE})

SpecTrio == Init /\ [][NextTrio]_vars

\* Two gestures and every kind of point, with sequences cancelled by the stage
NextCancel ==
  \/ SetState(Pair)
  \/ Begin(Pair, AllKeys, {FALSE})
  \/ Event(AllKeys, {FALSE})
  \/ \E k \in AllKeys : SequencesCancelled(k)

SpecCancel == Init /\ [][NextCancel]_vars

\* Two gestures on one touch point, whose events may carry
\* CLUTTER_EVENT_FLAG_SYNTHETIC (as the events of the conform tests do)
NextSynthetic ==
  \/ SetState(Pair)
  \/ Begin(Pair, OneTouch, BOOLEAN)
  \/ Event(OneTouch, BOOLEAN)

SpecSynthetic == Init /\ [][NextSynthetic]_vars

RequireFailureOf(G) ==
  \E a, b \in G : a # b /\ clutter_gesture_require_failure_of(a, b)

Request(G, MR) ==
  \E g \in G, s \in GestureStates, mr \in MR : RequestState(g, s, mr)

\* Two gestures on one touch point, with failure requirements between them
\* and with gestures that can not cancel the other
NextFailure ==
  \/ Request(Pair, BOOLEAN)
  \/ Begin(Pair, OneTouch, {FALSE})
  \/ Event(OneTouch, {FALSE})
  \/ RequireFailureOf(Pair)
  \/ CanNotCancel(Pair)

SpecFailure == Init /\ [][NextFailure]_vars

\* Three gestures that all take the one touch point, with failure
\* requirements between them; no handler of may-recognize objects
NextFailureTrio ==
  \/ Request(Gestures, {TRUE})
  \/ SequenceBegin(<<"touch", 1>>, Gestures, FALSE, {})
  \/ Event(OneTouch, {FALSE})
  \/ RequireFailureOf(Gestures)

SpecFailureTrio == Init /\ [][NextFailureTrio]_vars

\* Two gestures on one touch point; the application declares that a gesture
\* can not cancel the other and has the pair decisions made again
NextChanged ==
  \/ SetState(Pair)
  \/ Begin(Pair, OneTouch, {FALSE})
  \/ Event(OneTouch, {FALSE})
  \/ CanNotCancel(Pair)
  \/ \E g \in Pair : clutter_gesture_relationships_changed(g)

SpecChanged == Init /\ [][NextChanged]_vars

\* ---- the end of a gesture (clutter_gesture_set_actor, _finalize) ----

\* cancel_all_points once the points_cancelled vfunc has been called
DropAllPoints(w, self) ==
  WaitingIfNoPoints(
    [w EXCEPT !.points[self] = <<>>, !.public_points[self] = <<>>], self)

cancel_all_points(w, self) ==
  IF w.aborted THEN w
  ELSE IF w.state[self] \in {CANCELLED, COMPLETED}
  THEN IF Len(w.public_points[self]) # 0 THEN Abort(w)
       ELSE set_state_authoritative([w EXCEPT !.points[self] = <<>>], self,
                                    WAITING)
  ELSE IF Len(w.public_points[self]) = 0 THEN w
  ELSE DropAllPoints(
         EmitPoints(w, self, "points_cancelled", w.public_points[self]), self)

\* clutter_gesture_set_actor: the gesture is taken off its actor
clutter_gesture_set_actor(w, self) ==
  IF Len(w.public_points[self]) # 0 THEN cancel_all_points(w, self) ELSE w

\* Faulty variant for C30: clutter_gesture_finalize leaves the array alone.
KeepActive(w, self) == w

\* clutter_gesture_finalize: g_assert (g_ptr_array_remove (all_active_gestures, self))
RemoveActive(w, self) ==
  IF w.state[self] = WAITING THEN w
  ELSE IF ~Contains(w.all_active_gestures, self) THEN Abort(w)
  ELSE [w EXCEPT !.all_active_gestures = RemoveIndex(@, IndexOf(@, self))]

\* The two other g_asserts of clutter_gesture_finalize
FinalizeAsserts(w, self) ==
  IF w.aborted THEN w
  ELSE IF w.in_relationship_with[self] # {} THEN Abort(w)
  ELSE IF Len(w.cancel_on_recognizing[self]) # 0 THEN Abort(w)
  ELSE w

\* The memory of the gesture is free: the next gesture constructed takes its
\* place (clutter_gesture_init)
Constructed(w, self) ==
  IF w.aborted THEN w
  ELSE [w EXCEPT !.state[self] = WAITING, !.points[self] = <<>>,
                 !.public_points[self] = <<>>, !.pending_request[self] = ""]

\* The tables of weak references without the gesture (other_gesture_disposed)
WithoutGesture(table, self) ==
  [g \in Gestures |-> IF g = self THEN {} ELSE table[g] \ {self}]

\* The last reference to a gesture is dropped: it is taken off its actor and
\* finalized
clutter_gesture_finalize(self) ==
  /\ ~aborted
  /\ Commit(
       Constructed(
         FinalizeAsserts(
           RemoveActive(clutter_gesture_set_actor(World(AllTrue), self), self),
           self),
         self))
  /\ can_not_cancel' = WithoutGesture(can_not_cancel, self)
  /\ recognize_independently_from' =
       WithoutGesture(recognize_independently_from, self)
  /\ require_failure_of' = WithoutGesture(require_failure_of, self)
  /\ UNCHANGED subclass

Finalize(G) == \E g \in G : clutter_gesture_finalize(g)

\* Two gestures and every kind of point; the application may drop a gesture
NextFinalize ==
  \/ SetState(Pair)
  \/ Begin(Pair, AllKeys, {FALSE})
  \/ Event(AllKeys, {FALSE})
  \/ Finalize(Pair)

SpecFinalize == Init /\ [][NextFinalize]_vars

\* ---- ClutterClickGesture (clutter-click-gesture.c) ----

\* The gesture that is an instance of the subclass
Recognizer == 1

\* The coordinates events come with, and those a point begins at
Coords == {<<0, 0>>, <<0, 5>>, <<6, 8>>, <<0, 15>>}
BeginCoords == {<<0, 0>>, <<0, 5>>}

\* graphene_point_distance (a, b) > threshold, for a threshold that is set
DistanceExceeds(a, b, threshold) ==
  /\ threshold >= 0
  /\ (a[1] - b[1]) * (a[1] - b[1]) + (a[2] - b[2]) * (a[2] - b[2])
       > threshold * threshold

\* clutter_gesture_set_state called from inside a call chain
set_state_request(w, self, new_state) ==
  IF w.aborted THEN w
  ELSE IF RequestAccepted(w.state[self], new_state)
  THEN set_state_authoritative(w, self, new_state)
  ELSE WarnInvalid(w, self, new_state)

\* clutter_click_gesture_init; the two properties are construct-time choices
ClickInstance(cancel_threshold, n_clicks_required) ==
  [type |-> "ClutterClickGesture",
   pressed |-> FALSE,
   cancel_threshold |-> cancel_threshold,
   n_clicks_required |-> n_clicks_required,
   n_clicks_happened |-> 0,
   next_click_timeout_id |-> 0,
   is_touch |-> FALSE,
   press_coords |-> <<0, 0>>,
   press_button |-> 0,
   begin_coords |-> [k \in AllKeys |-> <<0, 0>>],
   clicked |-> 0]

\* Faulty variant for C39: the timer outlives the end of the gesture.
ClickStateChangedKeepsTimer(c, new_state) ==
  IF new_state = COMPLETED
  THEN [c EXCEPT !.clicked = @ + 1, !.pressed = FALSE,
                 !.n_clicks_happened = 0,
                 !.press_coords = <<0, 0>>, !.press_button = 0]
  ELSE IF new_state = CANCELLED
  THEN [c EXCEPT !.pressed = FALSE, !.n_clicks_happened = 0,
                 !.press_coords = <<0, 0>>, !.press_button = 0]
  ELSE c

\* state_changed of ClutterClickGesture
click_state_changed(c, new_state) ==
  IF new_state = COMPLETED
  THEN [c EXCEPT !.clicked = @ + 1, !.pressed = FALSE,
                 !.next_click_timeout_id = 0, !.n_clicks_happened = 0,
                 !.press_coords = <<0, 0>>, !.press_button = 0]
  ELSE IF new_state = CANCELLED
  THEN [c EXCEPT !.pressed = FALSE,
                 !.next_click_timeout_id = 0, !.n_clicks_happened = 0,
                 !.press_coords = <<0, 0>>, !.press_button = 0]
  ELSE c

\* The state_changed calls of the notifications from the i-th on
RECURSIVE ClickStateChanges(_, _)
ClickStateChanges(cw, i) ==
  IF i > Len(cw.w.emitted) THEN cw
  ELSE IF cw.w.emitted[i].type = "state" /\ cw.w.emitted[i].gesture = Recognizer
  THEN ClickStateChanges(
         [w |-> cw.w, c |-> click_state_changed(cw.c, cw.w.emitted[i].new)],
         i + 1)
  ELSE ClickStateChanges(cw, i + 1)

\* clutter_gesture_set_state (gesture, new_state) called by the click gesture
\* on itself, with the state_changed calls it leads to
ClickSetState(cw, new_state) ==
  ClickStateChanges(
    [w |-> set_state_request(cw.w, Recognizer, new_state), c |-> cw.c],
    Len(cw.w.emitted) + 1)

\* set_pressed
set_pressed(cw, pressed) == [w |-> cw.w, c |-> [cw.c EXCEPT !.pressed = pressed]]

\* points_began after the check of the number of points: the first press of
\* a click sequence is remembered, a later one is compared with it
ClickPressed(cw, event) ==
  IF cw.c.n_clicks_happened = 0
  THEN [w |-> cw.w,
        c |-> [cw.c EXCEPT !.is_touch = (event.type = TOUCH_BEGIN),
                           !.press_button = event.button,
                           !.press_coords = event.coords,
                           !.next_click_timeout_id =
                              IF cw.c.n_clicks_required > 1 THEN 1 ELSE 0,
                           !.pressed = TRUE]]
  ELSE IF \/ cw.c.is_touch # (event.type = TOUCH_BEGIN)
          \/ cw.c.press_button # event.button
          \/ DistanceExceeds(cw.c.press_coords, event.coords,
                             cw.c.cancel_threshold)
  THEN ClickSetState(set_pressed(cw, FALSE), CANCELLED)
  ELSE [w |-> cw.w,
        c |-> [cw.c EXCEPT !.next_click_timeout_id =
                              IF cw.c.n_clicks_required > 1 THEN 1 ELSE 0,
                           !.pressed = TRUE]]

\* points_began of ClutterClickGesture
click_points_began(cw, event) ==
  IF Len(cw.w.public_points[Recognizer]) # 1
  THEN ClickSetState(cw, CANCELLED)
  ELSE ClickPressed(
         [w |-> cw.w, c |-> [cw.c EXCEPT !.next_click_timeout_id = 0]], event)

\* Faulty variant for C26: the distance moved is not looked at.
MovedIgnored(cw, event) == cw

\* points_moved of ClutterClickGesture
click_points_moved(cw, event) ==
  IF DistanceExceeds(event.coords, cw.c.begin_coords[event.key],
                     cw.c.cancel_threshold)
  THEN ClickSetState(cw, CANCELLED)
  ELSE cw

\* points_ended after the click has been counted
ClickCounted(cw) ==
  IF cw.c.n_clicks_happened = cw.c.n_clicks_required
  THEN ClickSetState(
         [w |-> cw.w, c |-> [cw.c EXCEPT !.next_click_timeout_id = 0]],
         IF cw.c.pressed THEN COMPLETED ELSE CANCELLED)
  ELSE cw

\* points_ended of ClutterClickGesture
click_points_ended(cw, event) ==
  set_pressed(
    ClickCounted([w |-> cw.w, c |-> [cw.c EXCEPT !.n_clicks_happened = @ + 1]]),
    FALSE)

\* points_cancelled of ClutterClickGesture
click_points_cancelled(cw, event) == ClickSetState(cw, CANCELLED)

\* crossing_event of ClutterClickGesture
click_crossing_event(cw, event) ==
  IF event.on_actor THEN set_pressed(cw, event.type = ENTER) ELSE cw

\* The vfunc the switch of clutter_gesture_handle_event calls for the event
ClickVfunc(cw, event) ==
  CASE VfuncOf(event.type) = "points_began" -> click_points_began(cw, event)
    [] VfuncOf(event.type) = "points_moved" -> click_points_moved(cw, event)
    [] VfuncOf(event.type) = "points_ended" -> click_points_ended(cw, event)
    [] VfuncOf(event.type) = "points_cancelled" -> click_points_cancelled(cw, event)
    [] VfuncOf(event.type) = "crossing_event" -> click_crossing_event(cw, event)

\* Faulty variant for C32: the vfunc is called in CANCELLED and COMPLETED too.
ReachesVfuncInAnyState(w, self, event) ==
  /\ ~ReturnedEarly(w, self, event, find_point(w, self, event.key))
  /\ event.type \in {BUTTON_PRESS, TOUCH_BEGIN}
       \/ find_public_point(w, self, event.key) # 0
       \/ w.state[self] \in {CANCELLED, COMPLETED}

\* clutter_gesture_handle_event reaches the vfunc call of its switch
ReachesVfunc(w, self, event) ==
  /\ ~ReturnedEarly(w, self, event, find_point(w, self, event.key))
  /\ w.state[self] \notin {CANCELLED, COMPLETED}
  /\ event.type \in {BUTTON_PRESS, TOUCH_BEGIN}
       \/ find_public_point(w, self, event.key) # 0

\* The vfunc call of the switch, with the begin coordinates the base class
\* keeps in the public point
ClickAfterSwitch(cw, event, reached) ==
  IF cw.w.aborted \/ ~reached THEN cw
  ELSE IF event.type \in {BUTTON_PRESS, TOUCH_BEGIN}
  THEN ClickVfunc([w |-> cw.w,
                   c |-> [cw.c EXCEPT !.begin_coords[event.key] = event.coords]],
                  event)
  ELSE ClickVfunc(cw, event)

\* The unregister_point calls at the end of clutter_gesture_handle_event; the
\* begin coordinates go with the point
ClickUnregister(cw, event, early) ==
  [w |-> UnregisterIfEnded(cw.w, Recognizer, event, early),
   c |-> IF cw.w.aborted \/ early \/ ~EndsPoint(event.type) THEN cw.c
         ELSE [cw.c EXCEPT !.begin_coords[event.key] = <<0, 0>>]]

\* clutter_gesture_handle_event for the click gesture
click_handle_event(w, c, event) ==
  IF w.aborted \/ event.synthetic THEN [w |-> w, c |-> c]
  ELSE IF find_point(w, Recognizer, event.key) = 0 THEN [w |-> w, c |-> c]
  ELSE IF w.state[Recognizer] = WAITING THEN [w |-> Abort(w), c |-> c]
  ELSE ClickUnregister(
         ClickAfterSwitch(
           [w |-> HandleCountedEvent(
                    CountButtons(w, Recognizer, event,
                                 find_point(w, Recognizer, event.key)),
                    Recognizer, event, find_point(w, Recognizer, event.key),
                    find_public_point(w, Recognizer, event.key)),
            c |-> c],
           event, ReachesVfunc(w, Recognizer, event)),
         event,
         ReturnedEarly(w, Recognizer, event, find_point(w, Recognizer, event.key)))

\* The stage asks the click gesture about a new sequence and, if it takes
\* it, hands it the event
ClickOffered(r, c, event) ==
  IF r.ret THEN click_handle_event(r.w, c, event) ELSE [w |-> r.w, c |-> c]

CommitClick(cw) == Commit(cw.w) /\ subclass' = cw.c

\* A button press or a touch begin on the actor of the click gesture
ClickBegin(key, coords, button) ==
  /\ ~aborted
  /\ Holders(key) = {}
  /\ button = 0 <=> Device(key) # "pointer"
  /\ CommitClick(
       ClickOffered(
         clutter_gesture_should_handle_sequence(
           World(AllTrue), Recognizer,
           [type |-> BeginType(key), key |-> key, synthetic |-> FALSE,
            coords |-> coords, button |-> button]),
         [subclass EXCEPT !.clicked = 0],
         [type |-> BeginType(key), key |-> key, synthetic |-> FALSE,
          coords |-> coords, button |-> button]))
  /\ UNCHANGED <<can_not_cancel, recognize_independently_from,
                 require_failure_of>>

\* A further event of a sequence the click gesture holds
ClickEvent(key, type, coords, button, on_actor, mr) ==
  /\ ~aborted
  /\ Holders(key) # {}
  /\ type \in FollowTypes(key)
  /\ button = 0 <=> type \notin {BUTTON_PRESS, BUTTON_RELEASE}
  /\ on_actor => type \in {ENTER, LEAVE}
  /\ type = BUTTON_PRESS =>
       \A i \in 1..Len(points[Recognizer]) :
         points[Recognizer][i].n_buttons_pressed < MaxButtons
  /\ CommitClick(
       click_handle_event(
         World([AllTrue EXCEPT ![Recognizer] = mr]),
         [subclass EXCEPT !.clicked = 0],
         [type |-> type, key |-> key, synthetic |-> FALSE,
          coords |-> coords, button |-> button, on_actor |-> on_actor]))
  /\ UNCHANGED <<can_not_cancel, recognize_independently_from,
                 require_failure_of>>

\* next_click_timed_out
ClickTimedOut ==
  /\ ~aborted
  /\ subclass.next_click_timeout_id # 0
  /\ CommitClick(
       [w |-> ClickSetState([w |-> World(AllTrue),
                             c |-> [subclass EXCEPT !.clicked = 0]],
                            CANCELLED).w,
        c |-> [ClickSetState([w |-> World(AllTrue),
                              c |-> [subclass EXCEPT !.clicked = 0]],
                             CANCELLED).c
                 EXCEPT !.pressed = FALSE, !.next_click_timeout_id = 0]])
  /\ UNCHANGED <<can_not_cancel, recognize_independently_from,
                 require_failure_of>>

\* clutter_gesture_set_state on the click gesture, from the application
ClickRequested(new_state, mr) ==
  /\ ~aborted
  /\ CommitClick(
       ClickSetState([w |-> World([AllTrue EXCEPT ![Recognizer] = mr]),
                      c |-> [subclass EXCEPT !.clicked = 0]], new_state))
  /\ UNCHANGED <<can_not_cancel, recognize_independently_from,
                 require_failure_of>>

\* clutter_click_gesture_set_cancel_threshold
clutter_click_gesture_set_cancel_threshold(cancel_threshold) ==
  /\ ~aborted
  /\ subclass.cancel_threshold # cancel_threshold
  /\ subclass' = [subclass EXCEPT !.cancel_threshold = cancel_threshold,
                                  !.clicked = 0]
  /\ emitted' = <<>>
  /\ UNCHANGED <<state, points, public_points, in_relationship_with,
                 cancel_on_recognizing, can_not_cancel,
                 recognize_independently_from, all_active_gestures,
                 require_failure_of, pending_request, aborted>>

\* The thresholds an application gives the click gesture: none, 0, 10 pixels
Thresholds == {-1, 0, 10}

InitClick ==
  /\ InitGesture
  /\ \E t \in Thresholds, n \in 1..MaxClicks : subclass = ClickInstance(t, n)

\* One click gesture on an actor, with the pointer and two touch points
NextClick ==
  \/ \E k \in AllKeys, c \in BeginCoords, b \in 0..MaxButtons :
       ClickBegin(k, c, b)
  \/ \E k \in AllKeys, t \in EventTypes, c \in Coords, b \in 0..MaxButtons,
        on_actor, mr \in BOOLEAN : ClickEvent(k, t, c, b, on_actor, mr)
  \/ ClickTimedOut
  \/ \E s \in GestureStates, mr \in BOOLEAN : ClickRequested(s, mr)
  \/ \E t \in Thresholds : clutter_click_gesture_set_cancel_threshold(t)

SpecClick == InitClick /\ [][NextClick]_vars

\* ---- ClutterPanGesture (clutter-pan-gesture.c) ----

\* uint32_t arithmetic: as for n_buttons_pressed, a number stands for its
\* 32-bit pattern read as a signed number, so that 100 - 150 is -50
\* (UINT_MAX - 49); the numbers of the model are far from INT_MAX, where
\* the subtraction itself would wrap
Sub32(a, b) == a - b

\* a >= b and a > b between two such patterns, read as unsigned numbers
UnsignedGe(a, b) == IF (a < 0) = (b < 0) THEN a >= b ELSE a < 0
UnsignedGt(a, b) == a # b /\ UnsignedGe(a, b)

\* a % n of the unsigned number with pattern a (2^32 is 2 * INT_MAX + 2)
UnsignedRem(a, n) ==
  IF a >= 0 THEN a % n
  ELSE ((a % n) + ((2147483647 % n) * 2 + 2)) % n

EVENT_HISTORY_DURATION_MS == 150
EVENT_HISTORY_MIN_STORE_INTERVAL_MS == 1
EVENT_HISTORY_MAX_LENGTH ==
  EVENT_HISTORY_DURATION_MS \div EVENT_HISTORY_MIN_STORE_INTERVAL_MS
DEFAULT_BEGIN_THRESHOLD_PX == 16

\* ClutterPanAxis
CLUTTER_PAN_AXIS_BOTH == "BOTH"
CLUTTER_PAN_X_AXIS == "X"
CLUTTER_PAN_Y_AXIS == "Y"
PanAxes == {CLUTTER_PAN_AXIS_BOTH, CLUTTER_PAN_X_AXIS, CLUTTER_PAN_Y_AXIS}

\* Points a gesture is given within one episode
MaxPanPoints == 2

VecAdd(a, b) == <<a[1] + b[1], a[2] + b[2]>>
VecSub(a, b) == <<a[1] - b[1], a[2] - b[2]>>
Abs(x) == IF x < 0 THEN -x ELSE x

\* A ClutterGesturePoint of priv->public_points that is not in use. Of the
\* fields update_point_from_event writes, last_coords, move_coords and
\* event_time are written anew before every points_* call that reads them,
\* so the record keeps index and latest_coords and the call gets the others
\* from its event
NoPoint == [index |-> 0, latest_coords |-> <<0, 0>>]

\* Stored deltas a pan keeps while the model follows it
MaxHistory == 3

\* clutter_pan_gesture_init and the construct-time properties, with the
\* public points of the base class the pan gesture reads (point) and the time
\* of the latest event (clock)
PanInstance(begin_threshold, pan_axis, min_n_points, max_n_points) ==
  [type |-> "ClutterPanGesture",
   begin_threshold |-> begin_threshold,
   event_history |-> <<>>,
   event_history_begin_index |-> 0,
   total_delta |-> <<0, 0>>,
   pan_axis |-> pan_axis,
   min_n_points |-> min_n_points,
   max_n_points |-> max_n_points,
   use_point |-> 0,
   point_indices |-> 0,
   point |-> [k \in AllKeys |-> NoPoint],
   clock |-> 0,
   signals |-> <<>>]

\* g_signal_emit of one of the pan signals
PanSignal(c, signal) == [c EXCEPT !.signals = Append(@, signal)]

\* The entry add_delta_to_event_history compares the time with
LastHistoryEntry(c) ==
  c.event_history[UnsignedRem(Sub32(c.event_history_begin_index, 1),
                               EVENT_HISTORY_MAX_LENGTH) + 1]

\* The store at event_history_begin_index of add_delta_to_event_history
StoreHistoryEntry(c, entry) ==
  [c EXCEPT !.event_history =
              IF c.event_history_begin_index + 1 > Len(@) THEN Append(@, entry)
              ELSE [@ EXCEPT ![c.event_history_begin_index + 1] = entry],
            !.event_history_begin_index = (@ + 1) % EVENT_HISTORY_MAX_LENGTH]

add_delta_to_event_history(c, delta, time) ==
  IF /\ Len(c.event_history) # 0
     /\ UnsignedGt(LastHistoryEntry(c).time,
                   Sub32(time, EVENT_HISTORY_MIN_STORE_INTERVAL_MS))
  THEN c
  ELSE StoreHistoryEntry(c, [delta |-> delta, time |-> time])

\* One round of the loop of calculate_velocity on the entry at index j
VelocityStep(acc, entry, latest_event_time) ==
  IF UnsignedGe(entry.time, Sub32(latest_event_time, EVENT_HISTORY_DURATION_MS))
  THEN [first_time |-> IF acc.first_time = 0 THEN entry.time ELSE acc.first_time,
        accumulated_deltas |-> VecAdd(acc.accumulated_deltas, entry.delta),
        last_time |-> entry.time]
  ELSE acc

\* The loop of calculate_velocity: i counts the rounds, j is the index read
RECURSIVE VelocityLoop(_, _, _, _, _)
VelocityLoop(c, latest_event_time, i, j, acc) ==
  IF i >= Len(c.event_history) THEN acc
  ELSE VelocityLoop(
         c, latest_event_time, i + 1,
         (IF j = Len(c.event_history) THEN 0 ELSE j) + 1,
         VelocityStep(acc,
                      c.event_history[(IF j = Len(c.event_history) THEN 0 ELSE j) + 1],
                      latest_event_time))

\* The end of calculate_velocity: the velocity is accumulated_deltas divided
\* by time_delta, and (0, 0) when time_delta is given as 0
VelocityOf(acc) ==
  IF acc.first_time = acc.last_time
  THEN [accumulated_deltas |-> <<0, 0>>, time_delta |-> 0]
  ELSE [accumulated_deltas |-> acc.accumulated_deltas,
        time_delta |-> Sub32(acc.last_time, acc.first_time)]

calculate_velocity(c, latest_event_time) ==
  VelocityOf(
    VelocityLoop(c, latest_event_time, 0, c.event_history_begin_index,
                 [first_time |-> 0, accumulated_deltas |-> <<0, 0>>,
                  last_time |-> 0]))

\* What the read of point->event_time in state_changed can give when
\* clutter_gesture_get_points has returned NULL: the process stops, or some
\* number is read
CRASH == [crash |-> TRUE, event_time |-> 0]
ReadOf(event_time) == [crash |-> FALSE, event_time |-> event_time]

\* For the calls that cannot take the pan from RECOGNIZING to COMPLETED,
\* where state_changed reads no time
NothingRead == ReadOf(0)

\* The end of state_changed of ClutterPanGesture
PanReset(c, new_state) ==
  IF new_state \in {COMPLETED, CANCELLED}
  THEN [c EXCEPT !.total_delta = <<0, 0>>, !.event_history_begin_index = 0,
                 !.event_history = <<>>]
  ELSE c

\* state_changed of ClutterPanGesture once the time for pan-end is read;
\* the pan gesture's CLUTTER_GESTURE_STATE_RECOGNIZED is the state the base
\* class calls CLUTTER_GESTURE_STATE_COMPLETED
pan_state_changed(c, old_state, new_state, event_time) ==
  PanReset(
    IF old_state # RECOGNIZING /\ new_state = RECOGNIZING
    THEN PanSignal(c, [name |-> "pan-begin"])
    ELSE IF old_state = RECOGNIZING /\ new_state = COMPLETED
    THEN PanSignal(c, [name |-> "pan-end",
                       velocity |-> calculate_velocity(c, event_time)])
    ELSE IF old_state = RECOGNIZING /\ new_state = CANCELLED
    THEN PanSignal(c, [name |-> "pan-cancel"])
    ELSE c,
    new_state)

\* set_state of the base class empties public_points and resets
\* point_indices when it enters CANCELLED or COMPLETED, before state_changed
PanPointsDropped(c, new_state) ==
  IF new_state \in {COMPLETED, CANCELLED}
  THEN [c EXCEPT !.point = [k \in AllKeys |-> NoPoint], !.point_indices = 0]
  ELSE c

\* One state_changed call: on RECOGNIZING -> COMPLETED the public points are
\* gone, clutter_gesture_get_points returns NULL and point->event_time is
\* read through it; null_read is what that read does
PanStateChange(cw, entry, null_read) ==
  IF entry.old = RECOGNIZING /\ entry.new = COMPLETED /\ null_read.crash
  THEN [w |-> Abort(cw.w), c |-> PanPointsDropped(cw.c, entry.new)]
  ELSE [w |-> cw.w,
        c |-> pan_state_changed(PanPointsDropped(cw.c, entry.new),
                                entry.old, entry.new, null_read.event_time)]

\* The state_changed calls of the notifications from the i-th on
RECURSIVE PanStateChanges(_, _, _)
PanStateChanges(cw, i, null_read) ==
  IF cw.w.aborted \/ i > Len(cw.w.emitted) THEN cw
  ELSE IF cw.w.emitted[i].type = "state" /\ cw.w.emitted[i].gesture = Recognizer
  THEN PanStateChanges(PanStateChange(cw, cw.w.emitted[i], null_read),
                       i + 1, null_read)
  ELSE PanStateChanges(cw, i + 1, null_read)

\* clutter_gesture_set_state (gesture, new_state) on the pan gesture, with
\* the state_changed calls it leads to
PanSetState(cw, new_state, null_read) ==
  PanStateChanges(
    [w |-> set_state_request(cw.w, Recognizer, new_state), c |-> cw.c],
    Len(cw.w.emitted) + 1, null_read)

\* points_began: the first point of an episode starts the history
PanFirstDelta(cw, event) ==
  IF Len(cw.c.event_history) = 0
  THEN [w |-> cw.w,
        c |-> add_delta_to_event_history(cw.c, <<0, 0>>, event.time)]
  ELSE cw

\* points_began: a threshold of 0 begins the pan with the point
PanBeginAtZero(cw) ==
  IF cw.w.state[Recognizer] = POSSIBLE /\ cw.c.begin_threshold = 0
  THEN PanSetState(cw, RECOGNIZING, NothingRead)
  ELSE cw

\* points_began: a recognizing pan claims the new point, too
PanClaimPoint(cw) ==
  IF cw.w.state[Recognizer] = RECOGNIZING
  THEN PanSetState(cw, RECOGNIZING, NothingRead)
  ELSE cw

PanUsePoint(cw, index) == [w |-> cw.w, c |-> [cw.c EXCEPT !.use_point = index]]

\* points_began of ClutterPanGesture
pan_points_began(cw, event) ==
  IF Len(cw.w.public_points[Recognizer]) < cw.c.min_n_points THEN cw
  ELSE IF /\ cw.w.state[Recognizer] = POSSIBLE
          /\ cw.c.max_n_points # 0
          /\ Len(cw.w.public_points[Recognizer]) > cw.c.max_n_points
  THEN PanSetState(cw, CANCELLED, NothingRead)
  ELSE PanUsePoint(PanClaimPoint(PanBeginAtZero(PanFirstDelta(cw, event))),
                   cw.c.point[event.key].index)

\* get_delta_from_points for the one point a points_moved call comes with:
\* the sum of the positive and of the negative part of move_coords -
\* last_coords
get_delta_from_points(event) == VecSub(event.coords, event.last_coords)

\* points_moved: the motion is stored and added up
PanAddDelta(cw, event) ==
  [w |-> cw.w,
   c |-> [add_delta_to_event_history(cw.c, get_delta_from_points(event),
                                     event.time)
          EXCEPT !.total_delta = VecAdd(@, get_delta_from_points(event))]]

\* The comparison of total_delta with begin_threshold on the pan axis
ReachesThreshold(c) ==
  \/ /\ c.pan_axis = CLUTTER_PAN_AXIS_BOTH
     /\ c.total_delta[1] * c.total_delta[1] + c.total_delta[2] * c.total_delta[2]
          >= c.begin_threshold * c.begin_threshold
  \/ c.pan_axis = CLUTTER_PAN_X_AXIS /\ Abs(c.total_delta[1]) >= c.begin_threshold
  \/ c.pan_axis = CLUTTER_PAN_Y_AXIS /\ Abs(c.total_delta[2]) >= c.begin_threshold

\* points_moved: the pan begins
PanMaybeBegin(cw) ==
  IF /\ cw.w.state[Recognizer] = POSSIBLE
     /\ Len(cw.w.public_points[Recognizer]) >= cw.c.min_n_points
     /\ cw.c.max_n_points # 0
     /\ Len(cw.w.public_points[Recognizer]) <= cw.c.max_n_points
     /\ ReachesThreshold(cw.c)
  THEN PanSetState(cw, RECOGNIZING, NothingRead)
  ELSE cw

\* points_moved: pan-update
PanUpdate(cw) ==
  IF cw.w.state[Recognizer] = RECOGNIZING
  THEN [w |-> cw.w, c |-> PanSignal(cw.c, [name |-> "pan-update"])]
  ELSE cw

\* points_moved of ClutterPanGesture
pan_points_moved(cw, event) ==
  IF cw.c.point[event.key].index # cw.c.use_point THEN cw
  ELSE PanUpdate(PanMaybeBegin(PanAddDelta(cw, event)))

\* points_ended: the index of the point that is used from now on
OtherPoint(cw, event) ==
  IF cw.c.point[cw.w.public_points[Recognizer][1]].index
       # cw.c.point[event.key].index
  THEN cw.c.point[cw.w.public_points[Recognizer][1]].index
  ELSE cw.c.point[cw.w.public_points[Recognizer][2]].index

\* points_ended of ClutterPanGesture
pan_points_ended(cw, event, null_read) ==
  IF Len(cw.w.public_points[Recognizer]) - 1 >= cw.c.min_n_points
  THEN PanUsePoint(cw, OtherPoint(cw, event))
  ELSE IF cw.w.state[Recognizer] = RECOGNIZING
  THEN PanSetState(cw, COMPLETED, null_read)
  ELSE PanSetState(cw, CANCELLED, NothingRead)

\* points_cancelled of ClutterPanGesture
pan_points_cancelled(cw, event) == PanSetState(cw, CANCELLED, NothingRead)

\* The vfunc the switch of clutter_gesture_handle_event calls for the event
PanVfunc(cw, event, null_read) ==
  CASE VfuncOf(event.type) = "points_began" -> pan_points_began(cw, event)
    [] VfuncOf(event.type) = "points_moved" -> pan_points_moved(cw, event)
    [] VfuncOf(event.type) = "points_ended" -> pan_points_ended(cw, event, null_read)
    [] VfuncOf(event.type) = "points_cancelled" -> pan_points_cancelled(cw, event)
    [] VfuncOf(event.type) = "crossing_event" -> cw

\* update_point_from_event
update_point_from_event(public_point, event) ==
  [public_point EXCEPT !.latest_coords = event.coords]

\* The event with the last_coords update_point_from_event gives its point
WithLastCoords(c, event) ==
  [type |-> event.type, key |-> event.key, synthetic |-> event.synthetic,
   coords |-> event.coords, time |-> event.time,
   last_coords |-> c.point[event.key].latest_coords]

\* The public point as the switch of clutter_gesture_handle_event hands it
\* to the vfunc
PanPointOf(c, event) ==
  IF event.type \in {BUTTON_PRESS, TOUCH_BEGIN}
  THEN [c EXCEPT !.point[event.key] =
                   update_point_from_event(
                     [NoPoint EXCEPT !.index = c.point_indices], event),
                 !.point_indices = @ + 1]
  ELSE IF event.type \in {MOTION, TOUCH_UPDATE, BUTTON_RELEASE, TOUCH_END}
  THEN [c EXCEPT !.point[event.key] = update_point_from_event(@, event)]
  ELSE c

\* The vfunc call of the switch of clutter_gesture_handle_event
PanAfterSwitch(cw, event, reached, null_read) ==
  IF cw.w.aborted \/ ~reached THEN cw
  ELSE PanVfunc([w |-> cw.w, c |-> PanPointOf(cw.c, event)],
                WithLastCoords(cw.c, event), null_read)

\* The unregister_point calls at the end of clutter_gesture_handle_event,
\* which take the public point away
PanUnregister(cw, event, early) ==
  [w |-> UnregisterIfEnded(cw.w, Recognizer, event, early),
   c |-> IF cw.w.aborted \/ early \/ ~EndsPoint(event.type) THEN cw.c
         ELSE [cw.c EXCEPT !.point[event.key] = NoPoint]]

\* clutter_gesture_handle_event for the pan gesture
pan_handle_event(w, c, event, null_read) ==
  IF w.aborted \/ event.synthetic THEN [w |-> w, c |-> c]
  ELSE IF find_point(w, Recognizer, event.key) = 0 THEN [w |-> w, c |-> c]
  ELSE IF w.state[Recognizer] = WAITING THEN [w |-> Abort(w), c |-> c]
  ELSE PanUnregister(
         PanAfterSwitch(
           [w |-> HandleCountedEvent(
                    CountButtons(w, Recognizer, event,
                                 find_point(w, Recognizer, event.key)),
                    Recognizer, event, find_point(w, Recognizer, event.key),
                    find_public_point(w, Recognizer, event.key)),
            c |-> c],
           event, ReachesVfunc(w, Recognizer, event), null_read),
         event,
         ReturnedEarly(w, Recognizer, event, find_point(w, Recognizer, event.key)))

\* The stage asks the pan gesture about a new sequence and, if it takes it,
\* hands it the event
PanOffered(r, c, event, null_read) ==
  IF r.ret THEN pan_handle_event(r.w, c, event, null_read)
  ELSE [w |-> r.w, c |-> c]

\* The instance data as a call finds it: the signals are those of one call,
\* and the clock has moved on to the time of the call
PanAt(time) == [subclass EXCEPT !.signals = <<>>, !.clock = time]

\* A touch begin on the actor of the pan gesture
PanBegin(key, coords, time) ==
  /\ ~aborted
  /\ Holders(key) = {}
  /\ time >= subclass.clock
  /\ subclass.point_indices < MaxPanPoints
  /\ CommitClick(
       PanOffered(
         clutter_gesture_should_handle_sequence(
           World(AllTrue), Recognizer,
           [type |-> BeginType(key), key |-> key, synthetic |-> FALSE,
            coords |-> coords, time |-> time]),
         PanAt(time),
         [type |-> BeginType(key), key |-> key, synthetic |-> FALSE,
          coords |-> coords, time |-> time],
         NothingRead))
  /\ UNCHANGED <<can_not_cancel, recognize_independently_from,
                 require_failure_of>>

\* A further event of a sequence the pan gesture holds
PanEvent(key, type, coords, time, null_read, mr) ==
  /\ ~aborted
  /\ Holders(key) # {}
  /\ type \in FollowTypes(key)
  /\ time >= subclass.clock
  /\ type \in {MOTION, TOUCH_UPDATE} => Len(subclass.event_history) < MaxHistory
  /\ type = BUTTON_PRESS =>
       \A i \in 1..Len(points[Recognizer]) :
         points[Recognizer][i].n_buttons_pressed < MaxButtons
  /\ CommitClick(
       pan_handle_event(
         World([AllTrue EXCEPT ![Recognizer] = mr]),
         PanAt(time),
         [type |-> type, key |-> key, synthetic |-> FALSE,
          coords |-> coords, time |-> time],
         null_read))
  /\ UNCHANGED <<can_not_cancel, recognize_independently_from,
                 require_failure_of>>

\* clutter_gesture_set_state on the pan gesture, from the application
PanRequested(new_state, null_read, mr) ==
  /\ ~aborted
  /\ CommitClick(
       PanSetState([w |-> World([AllTrue EXCEPT ![Recognizer] = mr]),
                    c |-> PanAt(subclass.clock)],
                   new_state, null_read))
  /\ UNCHANGED <<can_not_cancel, recognize_independently_from,
                 require_failure_of>>

\* The test of clutter_pan_gesture_set_begin_threshold that follows the store
ThresholdReached(cw) ==
  /\ cw.w.state[Recognizer] = POSSIBLE
  /\ Len(cw.w.public_points[Recognizer]) >= cw.c.min_n_points
  /\ cw.c.max_n_points = 0
       \/ Len(cw.w.public_points[Recognizer]) <= cw.c.max_n_points
  /\ ReachesThreshold(cw.c)

clutter_pan_gesture_set_begin_threshold(begin_threshold, mr) ==
  /\ ~aborted
  /\ subclass.begin_threshold # begin_threshold
  /\ CommitClick(
       IF ThresholdReached(
            [w |-> World([AllTrue EXCEPT ![Recognizer] = mr]),
             c |-> [PanAt(subclass.clock)
                      EXCEPT !.begin_threshold = begin_threshold]])
       THEN PanSetState(
              [w |-> World([AllTrue EXCEPT ![Recognizer] = mr]),
               c |-> [PanAt(subclass.clock)
                        EXCEPT !.begin_threshold = begin_threshold]],
              RECOGNIZING, NothingRead)
       ELSE [w |-> World([AllTrue EXCEPT ![Recognizer] = mr]),
             c |-> [PanAt(subclass.clock)
                      EXCEPT !.begin_threshold = begin_threshold]])
  /\ UNCHANGED <<can_not_cancel, recognize_independently_from,
                 require_failure_of>>

\* The coordinates, times and thresholds of the pan specifications: a motion
\* of length 5 and motions along x, event times below and above the length
\* of the history, and the default threshold
PanCoords == {<<0, 0>>, <<3, 4>>, <<20, 0>>}
XCoords == {<<0, 0>>, <<10, 0>>, <<20, 0>>}
PanTimes == {0, 50, 100, 150, 250}
PanThresholds == {0, 5, DEFAULT_BEGIN_THRESHOLD_PX}
PanKeys == {<<"touch", 1>>, <<"touch", 2>>}
NullReads == {CRASH} \cup {ReadOf(t) : t \in PanTimes}

\* clutter_pan_gesture_set_min_n_points and _set_max_n_points accept these
PointRanges == {<<1, 0>>, <<2, 2>>}

\* The events that can end the last point of a pan
EndTypes == {BUTTON_RELEASE, TOUCH_END}

\* One call on a pan gesture on an actor
PanStep(keys, coords, times, reads, thresholds, mrs) ==
  \/ \E k \in keys, c \in coords, t \in times : PanBegin(k, c, t)
  \/ \E k \in keys, ty \in EventTypes \ EndTypes, c \in coords, t \in times,
        mr \in mrs : PanEvent(k, ty, c, t, NothingRead, mr)
  \/ \E k \in keys, ty \in EndTypes, c \in coords, t \in times, n \in reads,
        mr \in mrs : PanEvent(k, ty, c, t, n, mr)
  \/ \E s \in GestureStates, n \in reads, mr \in mrs : PanRequested(s, n, mr)
  \/ \E t \in thresholds, mr \in mrs :
       clutter_pan_gesture_set_begin_threshold(t, mr)

\* A pan gesture of any configuration, with two touch points
InitPan ==
  /\ InitGesture
  /\ \E t \in PanThresholds, a \in PanAxes, r \in PointRanges :
       subclass = PanInstance(t, a, r[1], r[2])

NextPan ==
  PanStep(PanKeys, PanCoords, {50}, {CRASH, ReadOf(50)}, PanThresholds,
          {TRUE})

SpecPan == InitPan /\ [][NextPan]_vars

\* A pan gesture with one touch point that moves along x, at the times the
\* velocity depends on
InitPanVelocity ==
  /\ InitGesture
  /\ subclass = PanInstance(0, CLUTTER_PAN_AXIS_BOTH, 1, 0)

NextPanVelocity ==
  PanStep(OneTouch, XCoords, PanTimes, NullReads, {0, 5}, {TRUE})

SpecPanVelocity == InitPanVelocity /\ [][NextPanVelocity]_vars

\* ---- the pan gesture is taken off its actor ----

\* emit_points_vfunc (self, gesture_class->points_cancelled, emission_points)
\* of cancel_all_points: one call with every public point
PanEmitCancelled(cw) ==
  pan_points_cancelled(
    [w |-> [cw.w EXCEPT !.emitted =
              Append(@, [type |-> "points_cancelled", gesture |-> Recognizer,
                         points |-> cw.w.public_points[Recognizer]])],
     c |-> cw.c],
    [type |-> TOUCH_CANCEL])

\* The end of cancel_all_points: both arrays are emptied, and a gesture
\* that its vfunc has moved to CANCELLED or COMPLETED goes on to WAITING
PanAllPointsGone(cw) ==
  IF cw.w.aborted THEN cw
  ELSE IF cw.w.state[Recognizer] \in {CANCELLED, COMPLETED}
  THEN PanStateChanges(
         [w |-> set_state_authoritative(DropAllPoints(cw.w, Recognizer),
                                        Recognizer, WAITING),
          c |-> [cw.c EXCEPT !.point = [k \in AllKeys |-> NoPoint]]],
         Len(cw.w.emitted) + 1, NothingRead)
  ELSE [w |-> DropAllPoints(cw.w, Recognizer),
        c |-> [cw.c EXCEPT !.point = [k \in AllKeys |-> NoPoint]]]

\* cancel_all_points for the pan gesture
PanCancelAllPoints(cw) ==
  IF cw.w.aborted THEN cw
  ELSE IF cw.w.state[Recognizer] \in {CANCELLED, COMPLETED}
  THEN IF Len(cw.w.public_points[Recognizer]) # 0
       THEN [w |-> Abort(cw.w), c |-> cw.c]
       ELSE PanStateChanges(
              [w |-> set_state_authoritative(
                       [cw.w EXCEPT !.points[Recognizer] = <<>>],
                       Recognizer, WAITING),
               c |-> cw.c],
              Len(cw.w.emitted) + 1, NothingRead)
  ELSE IF Len(cw.w.public_points[Recognizer]) = 0 THEN cw
  ELSE PanAllPointsGone(PanEmitCancelled(cw))

\* Faulty variant for C33: the gesture is detached with its points.
PanSetActorOnly(cw) == cw

\* clutter_gesture_set_actor for the pan gesture
PanSetActor(cw) ==
  IF Len(cw.w.public_points[Recognizer]) # 0 THEN PanCancelAllPoints(cw)
  ELSE cw

\* clutter_actor_remove_action, or the actor of the pan gesture is destroyed;
\* the stage goes on to deliver the events of the sequences in flight
PanDetached ==
  /\ ~aborted
  /\ CommitClick(PanSetActor([w |-> World(AllTrue),
                              c |-> PanAt(subclass.clock)]))
  /\ UNCHANGED <<can_not_cancel, recognize_independently_from,
                 require_failure_of>>

\* A pan gesture with two touch points that begins with its first point or
\* after the default threshold, and that may be taken off its actor
InitPanDetach ==
  /\ InitGesture
  /\ \E t \in {0, DEFAULT_BEGIN_THRESHOLD_PX} :
       subclass = PanInstance(t, CLUTTER_PAN_AXIS_BOTH, 1, 0)

NextPanDetach ==
  \/ PanStep(PanKeys, {<<0, 0>>, <<20, 0>>}, {50}, {ReadOf(50)},
             {0, DEFAULT_BEGIN_THRESHOLD_PX}, {TRUE})
  \/ PanDetached

SpecPanDetach == InitPanDetach /\ [][NextPanDetach]_vars

\* ---- ClutterLongPressGesture (clutter-long-press-gesture.c) ----

CLUTTER_BUTTON_PRIMARY == 1

\* clutter_long_press_gesture_init; the two properties are construct-time
\* choices. begin_coords are those of the public points of the base class
LongPressInstance(cancel_threshold, long_press_duration) ==
  [type |-> "ClutterLongPressGesture",
   cancel_threshold |-> cancel_threshold,
   long_press_duration |-> long_press_duration,
   long_press_timeout_id |-> 0,
   press_button |-> 0,
   begin_coords |-> [k \in AllKeys |-> <<0, 0>>],
   signals |-> <<>>]

\* g_signal_emit of one of the long-press signals, when the condition holds
LongPressSignal(c, condition, name) ==
  IF condition THEN [c EXCEPT !.signals = Append(@, name)] ELSE c

\* The end of state_changed of ClutterLongPressGesture: g_source_remove
LongPressReset(c, new_state) ==
  IF new_state \in {COMPLETED, CANCELLED}
  THEN [c EXCEPT !.long_press_timeout_id = 0, !.press_button = 0]
  ELSE c

\* state_changed of ClutterLongPressGesture; its
\* CLUTTER_GESTURE_STATE_RECOGNIZED is the state the base class calls
\* CLUTTER_GESTURE_STATE_COMPLETED
long_press_state_changed(c, old_state, new_state) ==
  LongPressReset(
    LongPressSignal(
      LongPressSignal(
        LongPressSignal(c, new_state = RECOGNIZING, "long-press-begin"),
        new_state = COMPLETED, "long-press-end"),
      old_state = RECOGNIZING /\ new_state = CANCELLED, "long-press-cancel"),
    new_state)

\* The state_changed calls of the notifications from the i-th on
RECURSIVE LongPressStateChanges(_, _)
LongPressStateChanges(cw, i) ==
  IF i > Len(cw.w.emitted) THEN cw
  ELSE IF cw.w.emitted[i].type = "state" /\ cw.w.emitted[i].gesture = Recognizer
  THEN LongPressStateChanges(
         [w |-> cw.w,
          c |-> long_press_state_changed(cw.c, cw.w.emitted[i].old,
                                         cw.w.emitted[i].new)],
         i + 1)
  ELSE LongPressStateChanges(cw, i + 1)

\* clutter_gesture_set_state (gesture, new_state) called by the long-press
\* gesture on itself, with the state_changed calls it leads to
LongPressSetState(cw, new_state) ==
  LongPressStateChanges(
    [w |-> set_state_request(cw.w, Recognizer, new_state), c |-> cw.c],
    Len(cw.w.emitted) + 1)

\* points_began after the check of the number of points
LongPressPressed(cw) ==
  IF cw.c.long_press_duration = 0 THEN LongPressSetState(cw, RECOGNIZING)
  ELSE [w |-> cw.w, c |-> [cw.c EXCEPT !.long_press_timeout_id = 1]]

\* points_began of ClutterLongPressGesture
long_press_points_began(cw, event) ==
  IF Len(cw.w.public_points[Recognizer]) > 1
  THEN LongPressSetState(cw, CANCELLED)
  ELSE LongPressPressed(
         [w |-> cw.w,
          c |-> [cw.c EXCEPT !.press_button =
                               IF event.type = BUTTON_PRESS THEN event.button
                               ELSE CLUTTER_BUTTON_PRIMARY]])

\* points_moved of ClutterLongPressGesture
long_press_points_moved(cw, event) ==
  IF DistanceExceeds(event.coords, cw.c.begin_coords[event.key],
                     cw.c.cancel_threshold)
  THEN LongPressSetState(cw, CANCELLED)
  ELSE cw

\* points_ended of ClutterLongPressGesture
long_press_points_ended(cw, event) ==
  IF cw.w.state[Recognizer] = RECOGNIZING
  THEN LongPressSetState(cw, COMPLETED)
  ELSE LongPressSetState(cw, CANCELLED)

\* points_cancelled of ClutterLongPressGesture
long_press_points_cancelled(cw, event) == LongPressSetState(cw, CANCELLED)

\* The vfunc the switch of clutter_gesture_handle_event calls for the event
LongPressVfunc(cw, event) ==
  CASE VfuncOf(event.type) = "points_began" -> long_press_points_began(cw, event)
    [] VfuncOf(event.type) = "points_moved" -> long_press_points_moved(cw, event)
    [] VfuncOf(event.type) = "points_ended" -> long_press_points_ended(cw, event)
    [] VfuncOf(event.type) = "points_cancelled" ->
         long_press_points_cancelled(cw, event)
    [] VfuncOf(event.type) = "crossing_event" -> cw

\* The vfunc call of the switch, with the begin coordinates the base class
\* keeps in the public point
LongPressAfterSwitch(cw, event, reached) ==
  IF cw.w.aborted \/ ~reached THEN cw
  ELSE IF event.type \in {BUTTON_PRESS, TOUCH_BEGIN}
  THEN LongPressVfunc(
         [w |-> cw.w,
          c |-> [cw.c EXCEPT !.begin_coords[event.key] = event.coords]],
         event)
  ELSE LongPressVfunc(cw, event)

\* clutter_gesture_handle_event for the long-press gesture; the begin
\* coordinates go with the point when it is unregistered
long_press_handle_event(w, c, event) ==
  IF w.aborted \/ event.synthetic THEN [w |-> w, c |-> c]
  ELSE IF find_point(w, Recognizer, event.key) = 0 THEN [w |-> w, c |-> c]
  ELSE IF w.state[Recognizer] = WAITING THEN [w |-> Abort(w), c |-> c]
  ELSE ClickUnregister(
         LongPressAfterSwitch(
           [w |-> HandleCountedEvent(
                    CountButtons(w, Recognizer, event,
                                 find_point(w, Recognizer, event.key)),
                    Recognizer, event, find_point(w, Recognizer, event.key),
                    find_public_point(w, Recognizer, event.key)),
            c |-> c],
           event, ReachesVfunc(w, Recognizer, event)),
         event,
         ReturnedEarly(w, Recognizer, event, find_point(w, Recognizer, event.key)))

\* The stage asks the long-press gesture about a new sequence and, if it
\* takes it, hands it the event
LongPressOffered(r, c, event) ==
  IF r.ret THEN long_press_handle_event(r.w, c, event) ELSE [w |-> r.w, c |-> c]

\* A button press or a touch begin on the actor of the long-press gesture
LongPressBegin(key, coords, button) ==
  /\ ~aborted
  /\ Holders(key) = {}
  /\ button = 0 <=> Device(key) # "pointer"
  /\ CommitClick(
       LongPressOffered(
         clutter_gesture_should_handle_sequence(
           World(AllTrue), Recognizer,
           [type |-> BeginType(key), key |-> key, synthetic |-> FALSE,
            coords |-> coords, button |-> button]),
         [subclass EXCEPT !.signals = <<>>],
         [type |-> BeginType(key), key |-> key, synthetic |-> FALSE,
          coords |-> coords, button |-> button]))
  /\ UNCHANGED <<can_not_cancel, recognize_independently_from,
                 require_failure_of>>

\* A further event of a sequence the long-press gesture holds
LongPressEvent(key, type, coords, button, mr) ==
  /\ ~aborted
  /\ Holders(key) # {}
  /\ type \in FollowTypes(key)
  /\ button = 0 <=> type \notin {BUTTON_PRESS, BUTTON_RELEASE}
  /\ type = BUTTON_PRESS =>
       \A i \in 1..Len(points[Recognizer]) :
         points[Recognizer][i].n_buttons_pressed < MaxButtons
  /\ CommitClick(
       long_press_handle_event(
         World([AllTrue EXCEPT ![Recognizer] = mr]),
         [subclass EXCEPT !.signals = <<>>],
         [type |-> type, key |-> key, synthetic |-> FALSE,
          coords |-> coords, button |-> button]))
  /\ UNCHANGED <<can_not_cancel, recognize_independently_from,
                 require_failure_of>>

\* long_press_cb: the timer of points_began fires
long_press_cb(mr) ==
  /\ ~aborted
  /\ subclass.long_press_timeout_id # 0
  /\ CommitClick(
       [w |-> LongPressSetState(
                [w |-> World([AllTrue EXCEPT ![Recognizer] = mr]),
                 c |-> [subclass EXCEPT !.signals = <<>>]],
                RECOGNIZING).w,
        c |-> [LongPressSetState(
                 [w |-> World([AllTrue EXCEPT ![Recognizer] = mr]),
                  c |-> [subclass EXCEPT !.signals = <<>>]],
                 RECOGNIZING).c
                 EXCEPT !.long_press_timeout_id = 0]])
  /\ UNCHANGED <<can_not_cancel, recognize_independently_from,
                 require_failure_of>>

\* The durations an application gives the long-press gesture: none, 500 ms
Durations == {0, 500}

InitLongPress ==
  /\ InitGesture
  /\ \E t \in Thresholds, d \in Durations : subclass = LongPressInstance(t, d)

\* One long-press gesture on an actor, with the pointer and two touch points
NextLongPress ==
  \/ \E k \in AllKeys, c \in BeginCoords, b \in 0..MaxButtons :
       LongPressBegin(k, c, b)
  \/ \E k \in AllKeys, t \in EventTypes, c \in Coords, b \in 0..MaxButtons,
        mr \in BOOLEAN : LongPressEvent(k, t, c, b, mr)
  \/ \E mr \in BOOLEAN : long_press_cb(mr)

SpecLongPress == InitLongPress /\ [][NextLongPress]_vars

\* ---- the two gestures with a timer, and an application that sets states ----

\* clutter_gesture_set_state on the long-press gesture, from the application
LongPressRequested(new_state, mr) ==
  /\ ~aborted
  /\ CommitClick(
       LongPressSetState([w |-> World([AllTrue EXCEPT ![Recognizer] = mr]),
                          c |-> [subclass EXCEPT !.signals = <<>>]],
                         new_state))
  /\ UNCHANGED <<can_not_cancel, recognize_independently_from,
                 require_failure_of>>

InitTimers == InitClick \/ InitLongPress

NextTimers ==
  \/ subclass.type = "ClutterClickGesture" /\ NextClick
  \/ subclass.type = "ClutterLongPressGesture" /\ NextLongPress
  \/ /\ subclass.type = "ClutterLongPressGesture"
     /\ \E s \in GestureStates, mr \in BOOLEAN : LongPressRequested(s, mr)

SpecTimers == InitTimers /\ [][NextTimers]_vars

\* ---- reading the log of a call ----

\* e is the notification of gesture g going from old to new
IsChange(e, g, old, new) ==
  e.type = "state" /\ e.gesture = g /\ e.old = old /\ e.new = new

\* the call notified g going from old to new
Changed(log, g, old, new) ==
  \E i \in 1..Len(log) : IsChange(log[i], g, old, new)

\* the call notified g entering new
Entered(log, g, new) ==
  \E i \in 1..Len(log) :
    log[i].type = "state" /\ log[i].gesture = g /\ log[i].new = new

\* the call notified a state change of g
Notified(log, g) ==
  \E i \in 1..Len(log) : log[i].type = "state" /\ log[i].gesture = g

\* gesture_may_start answered FALSE for g during the call
Refused(log, g) ==
  \E i \in 1..Len(log) : log[i] = [type |-> "refused", gesture |-> g]

\* the call notified g going from a to b and, later, from c to d
ChangedThen(log, g, a, b, c, d) ==
  \E i, j \in 1..Len(log) :
    i < j /\ IsChange(log[i], g, a, b) /\ IsChange(log[j], g, c, d)

\* a and b hold a point with the same key
SharePoint(a, b) ==
  \E i \in 1..Len(points[a]), j \in 1..Len(points[b]) :
    points[a][i].key = points[b][j].key

\* the recognizing gestures that are not in relationship with g and that g
\* has no recognize_independently_from permission for
BlockedBy(g) ==
  {o \in Gestures \ {g} : /\ state[o] = RECOGNIZING
                          /\ o \notin in_relationship_with[g]
                          /\ o \notin recognize_independently_from[g]}

NoOverride ==
  \A g \in Gestures :
    can_not_cancel[g] = {} /\ recognize_independently_from[g] = {}

\* ---- the claims ----

\* C1: when g1 and g2 are both POSSIBLE, share a point, are in relationship
\* and each is in the other's cancel_on_recognizing list, a call
\* clutter_gesture_set_state (g1, RECOGNIZING) in which g1 enters RECOGNIZING
\* returns with g2 CANCELLED and still holding its points.
RecognizingCancelsSharingPeer ==
  [][\A g1, g2 \in Gestures :
       (/\ g1 # g2
        /\ state[g1] = POSSIBLE /\ state[g2] = POSSIBLE
        /\ g2 \in in_relationship_with[g1] /\ SharePoint(g1, g2)
        /\ Contains(cancel_on_recognizing[g1], g2)
        /\ Contains(cancel_on_recognizing[g2], g1)
        /\ Changed(emitted', g1, POSSIBLE, RECOGNIZING)
        /\ \E mr \in BOOLEAN : clutter_gesture_set_state(g1, RECOGNIZING, mr))
       => /\ ~aborted'
          /\ state'[g1] = RECOGNIZING
          /\ state'[g2] = CANCELLED
          /\ Changed(emitted', g2, POSSIBLE, CANCELLED)
          /\ points'[g2] = points[g2] /\ points'[g2] # <<>>]_vars

RecognizingCancelsSharingPeerWitness ==
  /\ state[1] = RECOGNIZING /\ state[2] = CANCELLED
  /\ SharePoint(1, 2) /\ 2 \in in_relationship_with[1]
  /\ Changed(emitted, 1, POSSIBLE, RECOGNIZING)
  /\ Changed(emitted, 2, POSSIBLE, CANCELLED)

\* C2: as long as no can_not_cancel and no recognize_independently_from
\* entry exists, at most one gesture is RECOGNIZING in every state between
\* two calls.
AtMostOneRecognizing ==
  (NoOverride /\ ~aborted)
    => Cardinality({g \in Gestures : state[g] = RECOGNIZING}) <= 1

AtMostOneRecognizingWitness ==
  /\ NoOverride /\ ~aborted
  /\ \E g, o \in Gestures :
       /\ g # o
       /\ state[g] = RECOGNIZING
       /\ Changed(emitted, g, POSSIBLE, RECOGNIZING)
       /\ Changed(emitted, o, POSSIBLE, CANCELLED)

\* C3: while a gesture that is not in relationship with g and that g has no
\* permission for is RECOGNIZING, no call moves g out of WAITING: g keeps no
\* point, stays out of all_active_gestures and gets no state notification;
\* when no such gesture is RECOGNIZING, clutter_gesture_set_state (g,
\* POSSIBLE) whose may-recognize handlers agree moves g to POSSIBLE.
BlockedGestureStaysWaiting ==
  [][\A g \in Gestures :
       /\ (state[g] = WAITING /\ BlockedBy(g) # {} /\ ~aborted')
          => /\ state'[g] = WAITING
             /\ points'[g] = <<>> /\ public_points'[g] = <<>>
             /\ ~Contains(all_active_gestures', g)
             /\ ~Notified(emitted', g)
       /\ (/\ state[g] = WAITING /\ BlockedBy(g) = {}
           /\ clutter_gesture_set_state(g, POSSIBLE, TRUE))
          => /\ state'[g] = POSSIBLE
             /\ Contains(all_active_gestures', g)
             /\ Len(emitted') = 1
             /\ IsChange(emitted'[1], g, WAITING, POSSIBLE)]_vars

BlockedGestureStaysWaitingWitness ==
  \E g \in Gestures :
    /\ state[g] = WAITING /\ BlockedBy(g) # {}
    /\ Refused(emitted, g)
    /\ points[g] = <<>> /\ ~Contains(all_active_gestures, g)

\* C4: in a call in which g enters RECOGNIZING, every other gesture that was
\* POSSIBLE, not in relationship with g and without permission to recognize
\* independently from g is notified CANCELLED; one that held a point is
\* CANCELLED when the call returns, one that held none was notified
\* CANCELLED first and WAITING after, and is WAITING when the call returns.
RecognizingCancelsIndependent ==
  [][\A g, o \in Gestures :
       (/\ g # o
        /\ state[o] = POSSIBLE
        /\ o \notin in_relationship_with[g]
        /\ g \notin recognize_independently_from[o]
        /\ Entered(emitted', g, RECOGNIZING)
        /\ ~aborted')
       => /\ Changed(emitted', o, POSSIBLE, CANCELLED)
          /\ ~Entered(emitted', o, RECOGNIZING)
          /\ points[o] # <<>> => state'[o] = CANCELLED
          /\ points[o] = <<>> =>
               /\ state'[o] = WAITING
               /\ ChangedThen(emitted', o, POSSIBLE, CANCELLED,
                              CANCELLED, WAITING)]_vars

RecognizingCancelsIndependentWitness ==
  \E g, o \in Gestures :
    /\ g # o /\ ~aborted
    /\ state[g] = RECOGNIZING /\ state[o] = WAITING
    /\ Changed(emitted, g, POSSIBLE, RECOGNIZING)
    /\ ChangedThen(emitted, o, POSSIBLE, CANCELLED, CANCELLED, WAITING)

\* C5: for g1 and g2 not in relationship and g2 POSSIBLE: when g2 has the
\* permission recognize_independently_from (g2, g1), a call in which g1
\* enters RECOGNIZING leaves g2 POSSIBLE, and with g1 RECOGNIZING a call
\* clutter_gesture_set_state (g2, RECOGNIZING) whose may-recognize handlers
\* agree leaves both RECOGNIZING; when g2 has no such permission, whatever
\* permission g1 has, a call in which g1 enters RECOGNIZING cancels g2.
IndependentRecognitionIsDirected ==
  [][\A g1, g2 \in Gestures :
       (/\ g1 # g2
        /\ state[g2] = POSSIBLE
        /\ g2 \notin in_relationship_with[g1]
        /\ ~aborted')
       => /\ (/\ g1 \in recognize_independently_from[g2]
              /\ Entered(emitted', g1, RECOGNIZING))
             => state'[g2] = POSSIBLE /\ ~Notified(emitted', g2)
          /\ (/\ g1 \in recognize_independently_from[g2]
              /\ state[g1] = RECOGNIZING
              /\ clutter_gesture_set_state(g2, RECOGNIZING, TRUE))
             => /\ state'[g1] = RECOGNIZING /\ state'[g2] = RECOGNIZING
                /\ ~Notified(emitted', g1)
          /\ (/\ g1 \notin recognize_independently_from[g2]
              /\ Entered(emitted', g1, RECOGNIZING))
             => /\ state'[g2] \in {CANCELLED, WAITING}
                /\ Changed(emitted', g2, POSSIBLE, CANCELLED)]_vars

IndependentRecognitionIsDirectedWitness ==
  \E g1, g2 \in Gestures :
    /\ g1 # g2 /\ ~aborted
    /\ g1 \in recognize_independently_from[g2]
    /\ g2 \notin recognize_independently_from[g1]
    /\ g2 \notin in_relationship_with[g1]
    /\ state[g1] = RECOGNIZING /\ state[g2] = RECOGNIZING
    /\ Changed(emitted, g2, POSSIBLE, RECOGNIZING)

\* b was declared can_not_cancel (a, b) and is not in a's cancel list
Spared(a, b) ==
  b \in can_not_cancel[a] /\ ~Contains(cancel_on_recognizing[a], b)

\* C6: b gets into a's cancel_on_recognizing list only in a call that pairs
\* a and b while can_not_cancel (a, b) is not declared, so a declaration made
\* before a and b first share a point keeps b out of the list. With b kept
\* out, a call in which a enters RECOGNIZING leaves the state of a sharing b
\* as it is, and when that holds both ways and a is RECOGNIZING,
\* clutter_gesture_set_state (b, RECOGNIZING) whose may-recognize handlers
\* agree leaves both RECOGNIZING on their shared point. Without
\* can_not_cancel (b, a), a call in which b enters RECOGNIZING cancels a
\* POSSIBLE a that shares a point with b.
CanNotCancelIsDirected ==
  [][\A a, b \in Gestures :
       (a # b /\ ~aborted') =>
         /\ (/\ ~Contains(cancel_on_recognizing[a], b)
             /\ Contains(cancel_on_recognizing'[a], b))
            => /\ b \notin can_not_cancel[a]
               /\ b \notin in_relationship_with[a]
               /\ b \in in_relationship_with'[a]
         /\ (/\ Spared(a, b)
             /\ b \in in_relationship_with[a] /\ SharePoint(a, b)
             /\ state[b] \in {POSSIBLE, RECOGNIZING}
             /\ Entered(emitted', a, RECOGNIZING))
            => state'[b] = state[b] /\ ~Notified(emitted', b)
         /\ (/\ Spared(a, b) /\ Spared(b, a)
             /\ b \in in_relationship_with[a] /\ SharePoint(a, b)
             /\ state[a] = RECOGNIZING /\ state[b] = POSSIBLE
             /\ clutter_gesture_set_state(b, RECOGNIZING, TRUE))
            => /\ state'[a] = RECOGNIZING /\ state'[b] = RECOGNIZING
               /\ points'[a] = points[a] /\ points'[b] = points[b]
         /\ (/\ a \notin can_not_cancel[b]
             /\ b \in in_relationship_with[a] /\ SharePoint(a, b)
             /\ state[a] = POSSIBLE /\ state[b] = POSSIBLE
             /\ Entered(emitted', b, RECOGNIZING))
            => /\ state'[a] = CANCELLED
               /\ Changed(emitted', a, POSSIBLE, CANCELLED)]_vars

CanNotCancelIsDirectedWitness ==
  \E a, b \in Gestures :
    /\ a # b /\ ~aborted
    /\ Spared(a, b) /\ Spared(b, a)
    /\ b \in in_relationship_with[a] /\ SharePoint(a, b)
    /\ state[a] = RECOGNIZING /\ state[b] = RECOGNIZING
    /\ Changed(emitted, b, POSSIBLE, RECOGNIZING)

\* C7: a call clutter_gesture_set_state (g, COMPLETED) on a POSSIBLE g that
\* may start notifies POSSIBLE -> RECOGNIZING and then RECOGNIZING ->
\* COMPLETED, never CANCELLED, cancels the POSSIBLE gestures that are not in
\* relationship with g and have no permission to recognize independently
\* from g, and the POSSIBLE or RECOGNIZING ones of g's cancel list, and
\* returns with g COMPLETED (WAITING if g holds no point); when g
\* may not start (a may-recognize handler refuses, or a gesture g is blocked
\* by is RECOGNIZING) the call notifies POSSIBLE -> CANCELLED, never
\* RECOGNIZING nor COMPLETED, and changes no other gesture.
CompletedGoesThroughRecognizing ==
  [][\A g \in Gestures : \A mr \in BOOLEAN :
       (/\ state[g] = POSSIBLE
        /\ ~aborted'
        /\ clutter_gesture_set_state(g, COMPLETED, mr))
       => IF mr /\ BlockedBy(g) = {}
          THEN /\ ChangedThen(emitted', g, POSSIBLE, RECOGNIZING,
                              RECOGNIZING, COMPLETED)
               /\ ~Entered(emitted', g, CANCELLED)
               /\ ~Refused(emitted', g)
               /\ state'[g] = IF points[g] = <<>> THEN WAITING ELSE COMPLETED
               /\ \A o \in Gestures \ {g} :
                    (\/ /\ state[o] = POSSIBLE
                        /\ o \notin in_relationship_with[g]
                        /\ g \notin recognize_independently_from[o]
                     \/ /\ state[o] \in {POSSIBLE, RECOGNIZING}
                        /\ o \in in_relationship_with[g]
                        /\ Contains(cancel_on_recognizing[g], o))
                    => /\ Entered(emitted', o, CANCELLED)
                       /\ state'[o] \in {CANCELLED, WAITING}
          ELSE /\ Refused(emitted', g)
               /\ Changed(emitted', g, POSSIBLE, CANCELLED)
               /\ ~Entered(emitted', g, RECOGNIZING)
               /\ ~Entered(emitted', g, COMPLETED)
               /\ state'[g] = IF points[g] = <<>> THEN WAITING ELSE CANCELLED
               /\ \A o \in Gestures \ {g} :
                    state'[o] = state[o] /\ ~Notified(emitted', o)]_vars

CompletedGoesThroughRecognizingWitness ==
  \E g, o \in Gestures :
    /\ g # o /\ ~aborted
    /\ state[g] = COMPLETED /\ state[o] = CANCELLED
    /\ ChangedThen(emitted, g, POSSIBLE, RECOGNIZING, RECOGNIZING, COMPLETED)
    /\ Changed(emitted, o, POSSIBLE, CANCELLED)
    /\ o \in in_relationship_with[g]

\* The edges of the transition table; RECOGNIZE_PENDING is a state of the
\* table that ClutterGestureState of this code does not have
TransitionTable ==
  {<<WAITING, POSSIBLE>>, <<POSSIBLE, RECOGNIZING>>,
   <<POSSIBLE, "RECOGNIZE_PENDING">>, <<POSSIBLE, CANCELLED>>,
   <<"RECOGNIZE_PENDING", RECOGNIZING>>, <<"RECOGNIZE_PENDING", CANCELLED>>,
   <<RECOGNIZING, RECOGNIZING>>, <<RECOGNIZING, COMPLETED>>,
   <<RECOGNIZING, CANCELLED>>, <<COMPLETED, WAITING>>, <<CANCELLED, WAITING>>}

\* The state the notifications of g in the log lead to from state s, when
\* each of them starts where the one before ended
RECURSIVE Follow(_, _, _, _)
Follow(log, g, s, i) ==
  IF i > Len(log) THEN s
  ELSE IF log[i].type = "state" /\ log[i].gesture = g
  THEN IF log[i].old = s THEN Follow(log, g, log[i].new, i + 1) ELSE "broken"
  ELSE Follow(log, g, s, i + 1)

\* C8: every state change notified in a call is an edge of the transition
\* table, and the notified changes of each gesture lead, edge by edge, from
\* its state before the call to its state after.
EveryChangeIsAnEdge ==
  [][/\ \A i \in 1..Len(emitted') :
          emitted'[i].type = "state"
            => <<emitted'[i].old, emitted'[i].new>> \in TransitionTable
     /\ ~aborted' => \A g \in Gestures :
                       Follow(emitted', g, state[g], 1) = state'[g]]_vars

EveryChangeIsAnEdgeWitness ==
  /\ ~aborted
  /\ ChangedThen(emitted, 1, POSSIBLE, RECOGNIZING, RECOGNIZING, COMPLETED)
  /\ ChangedThen(emitted, 2, POSSIBLE, CANCELLED, CANCELLED, WAITING)
  /\ state[1] = COMPLETED /\ state[2] = WAITING

\* C9: a call clutter_gesture_set_state (g, s) where (state of g, s) is
\* neither an edge of the transition table nor the jump POSSIBLE -> COMPLETED
\* changes no state, no point, no relationship table and not the registry,
\* and notifies nothing; for s = CANCELLED it does not even warn.
InvalidRequestChangesNothing ==
  [][\A g \in Gestures : \A s \in GestureStates : \A mr \in BOOLEAN :
       (/\ <<state[g], s>> \notin TransitionTable
        /\ <<state[g], s>> # <<POSSIBLE, COMPLETED>>
        /\ clutter_gesture_set_state(g, s, mr))
       => /\ UNCHANGED <<state, points, public_points, in_relationship_with,
                         cancel_on_recognizing, can_not_cancel,
                         recognize_independently_from, all_active_gestures,
                         aborted>>
          /\ emitted' = IF s = CANCELLED THEN <<>>
                        ELSE <<[type |-> "invalid"]>>]_vars

InvalidRequestChangesNothingWitness ==
  /\ emitted = <<[type |-> "invalid"]>>
  /\ \E g \in Gestures : state[g] = COMPLETED /\ points[g] # <<>>
  /\ \E g \in Gestures : in_relationship_with[g] # {}

\* C10: a gesture that is CANCELLED or COMPLETED is next notified WAITING and
\* nothing else, and a call that finds it CANCELLED or COMPLETED returns with
\* it in the same state or, after a WAITING notification, in WAITING: never
\* in POSSIBLE or RECOGNIZING.
EpisodeEndsInWaiting ==
  [][\A g \in Gestures :
       /\ \A i \in 1..Len(emitted') :
            (/\ emitted'[i].type = "state" /\ emitted'[i].gesture = g
             /\ emitted'[i].old \in {CANCELLED, COMPLETED})
            => emitted'[i].new = WAITING
       /\ (state[g] \in {CANCELLED, COMPLETED} /\ ~aborted')
          => /\ state'[g] \in {state[g], WAITING}
             /\ state'[g] = WAITING <=> Entered(emitted', g, WAITING)]_vars

EpisodeEndsInWaitingWitness ==
  \E g \in Gestures :
    /\ state[g] = CANCELLED /\ points[g] # <<>> /\ ~aborted
    /\ emitted = <<[type |-> "invalid"]>>
    /\ \E o \in Gestures : state[o] = RECOGNIZING /\ o \in in_relationship_with[g]

\* C11: when a call notifies g entering RECOGNIZING or COMPLETED while a peer p
\* that is in relationship with g and on g's cancel_on_recognizing list is
\* already COMPLETED or CANCELLED, the call ends with p in the state it had and
\* with no failed assertion.
CascadeSparesTerminalPeer ==
  [][\A g, p \in Gestures :
       (/\ g # p
        /\ state[p] \in {COMPLETED, CANCELLED}
        /\ p \in in_relationship_with[g]
        /\ Contains(cancel_on_recognizing[g], p)
        /\ \E s \in {RECOGNIZING, COMPLETED}, mr \in BOOLEAN :
             clutter_gesture_set_state(g, s, mr)
        /\ \/ Entered(emitted', g, RECOGNIZING)
           \/ Entered(emitted', g, COMPLETED))
       => ~aborted' /\ state'[p] = state[p]]_vars

\* C12: in every reachable state a WAITING gesture has no private and no
\* public point, and a COMPLETED or CANCELLED gesture has no public point.
NoPointsOutsideActiveStates ==
  \A g \in Gestures :
    /\ state[g] = WAITING => points[g] = <<>> /\ public_points[g] = <<>>
    /\ state[g] \in {COMPLETED, CANCELLED} => public_points[g] = <<>>

NoPointsOutsideActiveStatesWitness ==
  /\ ~aborted
  /\ state[1] = COMPLETED /\ Len(points[1]) = 2 /\ public_points[1] = <<>>
  /\ Changed(emitted, 1, RECOGNIZING, COMPLETED)
  /\ state[2] = WAITING /\ points[2] = <<>>

\* C13: between calls, and in the state in which the assertion of set_state
\* on entering RECOGNIZING stops the process, a POSSIBLE or RECOGNIZING
\* gesture has as many public points as private points, whether or not the
\* events carry the synthetic flag.
PointSetsSameLength ==
  \A g \in Gestures :
    state[g] \in {POSSIBLE, RECOGNIZING} =>
      Len(points[g]) = Len(public_points[g])

\* C14: in every reachable state, A is in B's in_relationship_with set if and
\* only if B is in A's; pairing and the return of either gesture to WAITING
\* keep it so.
RelationshipIsSymmetric ==
  \A a, b \in Gestures :
    a \in in_relationship_with[b] <=> b \in in_relationship_with[a]

\* Gesture 1 went back to WAITING in the last call and left the relationship
\* it had with 2, while 2 and 3 are still paired.
RelationshipIsSymmetricWitness ==
  /\ ~aborted
  /\ Entered(emitted, 1, WAITING)
  /\ in_relationship_with[1] = {}
  /\ in_relationship_with[2] = {3} /\ in_relationship_with[3] = {2}
  /\ Contains(cancel_on_recognizing[2], 1)

\* the call is an explicit request to move g to WAITING
ExplicitWaiting(g) == \E mr \in BOOLEAN : clutter_gesture_set_state(g, WAITING, mr)

\* C15: a COMPLETED or CANCELLED gesture that still holds a private point
\* after a call other than an explicit request for WAITING is in the state it
\* had; the call that removes its last point (an event or a cancellation of
\* the sequence) notifies WAITING and leaves it WAITING; and a gesture without
\* points that a call notifies COMPLETED or CANCELLED is WAITING when the
\* call is over.
TerminalUntilLastPoint ==
  [][\A g \in Gestures :
       /\ (/\ state[g] \in {COMPLETED, CANCELLED}
           /\ ~ExplicitWaiting(g)
           /\ points'[g] # <<>>)
          => state'[g] = state[g]
       /\ (/\ state[g] \in {COMPLETED, CANCELLED}
           /\ points[g] # <<>> /\ points'[g] = <<>>)
          => state'[g] = WAITING /\ Changed(emitted', g, state[g], WAITING)
       /\ (/\ points[g] = <<>>
           /\ \/ Entered(emitted', g, COMPLETED)
              \/ Entered(emitted', g, CANCELLED))
          => state'[g] = WAITING /\ Entered(emitted', g, WAITING)]_vars

Pointer == <<"pointer", 0>>

\* g is POSSIBLE and holds the pointer point with one button pressed: the
\* state a WAITING gesture is in after a BUTTON_PRESS, as long as no call of
\* clutter_gesture_set_state moved it
JustPressed(g) ==
  /\ state[g] = POSSIBLE
  /\ Len(points[g]) = 1
  /\ points[g][1].key = Pointer /\ points[g][1].n_buttons_pressed = 1

\* C16 (as the code behaves): a BUTTON_PRESS offered to a WAITING gesture that
\* nothing blocks notifies WAITING -> POSSIBLE once and gives it one private
\* and one public point; the BUTTON_RELEASE that follows removes both points,
\* notifies nothing and leaves the gesture POSSIBLE.
PressReleaseStaysPossible ==
  [][\A g \in Gestures :
       /\ (/\ state[g] = WAITING /\ BlockedBy(g) = {}
           /\ \E offered \in SUBSET Pair, vetoers \in SUBSET Pair :
                /\ g \in offered /\ g \notin vetoers
                /\ SequenceBegin(Pointer, offered, FALSE, vetoers))
          => /\ JustPressed(g)'
             /\ public_points'[g] = <<Pointer>>
             /\ Changed(emitted', g, WAITING, POSSIBLE)
             /\ \A i \in 1..Len(emitted') :
                  (emitted'[i].type = "state" /\ emitted'[i].gesture = g)
                  => IsChange(emitted'[i], g, WAITING, POSSIBLE)
       /\ (JustPressed(g) /\ SequenceEvent(Pointer, BUTTON_RELEASE, FALSE))
          => /\ state'[g] = POSSIBLE
             /\ points'[g] = <<>> /\ public_points'[g] = <<>>
             /\ ~Notified(emitted', g)
             /\ ~aborted']_vars

PressReleaseStaysPossibleWitness ==
  /\ ~aborted
  /\ state[1] = POSSIBLE /\ points[1] = <<>> /\ public_points[1] = <<>>
  /\ state[2] = WAITING
  /\ emitted = <<>>

\* C16 as stated: the BUTTON_RELEASE that follows the BUTTON_PRESS leaves the
\* gesture in WAITING.
PressReleaseReturnsToWaiting ==
  [][\A g \in Gestures :
       (JustPressed(g) /\ SequenceEvent(Pointer, BUTTON_RELEASE, FALSE))
       => state'[g] = WAITING]_vars

\* the call marked every point g holds as claimed on the stage
ClaimedAll(log, g, pts) ==
  \A i \in 1..Len(pts) :
    \E j \in 1..Len(log) :
      log[j] = [type |-> "claim", gesture |-> g, key |-> pts[i].key]

\* C17: a call clutter_gesture_set_state (g, RECOGNIZING) on a RECOGNIZING g
\* calls no state_changed and emits no state notification for g, leaves g
\* RECOGNIZING and marks each of g's points as claimed again.
RecognizingAgainIsSilent ==
  [][\A g \in Gestures :
       (/\ state[g] = RECOGNIZING
        /\ \E mr \in BOOLEAN : clutter_gesture_set_state(g, RECOGNIZING, mr))
       => /\ ~Notified(emitted', g)
          /\ state'[g] = RECOGNIZING
          /\ ClaimedAll(emitted', g, points[g])]_vars

\* the state notifications of g in the log, in order
RECURSIVE NotificationsOf(_, _, _)
NotificationsOf(log, g, i) ==
  IF i > Len(log) THEN <<>>
  ELSE IF log[i].type = "state" /\ log[i].gesture = g
  THEN <<log[i]>> \o NotificationsOf(log, g, i + 1)
  ELSE NotificationsOf(log, g, i + 1)

\* the notifications of g during the call are the changes of its state, one
\* for each: they lead from the state before the call to the state after it
\* and none has old = new
OneNotificationPerChange(g) ==
  LET n == NotificationsOf(emitted', g, 1) IN
    /\ \A k \in 1..Len(n) :
         /\ n[k].old # n[k].new
         /\ n[k].old = IF k = 1 THEN state[g] ELSE n[k - 1].new
    /\ state'[g] = IF n = <<>> THEN state[g] ELSE n[Len(n)].new

\* inside the handlers of every notification of the call, the state read for
\* g is the new state of the last notification of g so far (the state g had
\* before the call when the call has not notified g yet)
ReadsMatchNotifications(g) ==
  \A i \in 1..Len(emitted') :
    emitted'[i].type = "state" =>
      LET n == NotificationsOf(SubSeq(emitted', 1, i), g, 1) IN
        emitted'[i].seen[g] = IF n = <<>> THEN state[g] ELSE n[Len(n)].new

\* C18: every call emits exactly one state notification, with old # new, for
\* each state change of a gesture and none without a change, and whoever
\* reads the state of a gesture, also from inside a notification of another
\* gesture during a cascade, reads the new state of the last notification of
\* that gesture.
NotificationsTrackState ==
  [][\A g \in Gestures :
       OneNotificationPerChange(g) /\ ReadsMatchNotifications(g)]_vars

\* C19: in a call in which g is notified POSSIBLE -> RECOGNIZING, every
\* CANCELLED notification of another gesture, whether that gesture is on g's
\* cancel_on_recognizing list or an unrelated POSSIBLE one, comes before the
\* notification of g, so that it is observable when g's state_changed returns.
CancellationsBeforeOwnCallback ==
  [][\A g \in Gestures : \A o \in Gestures \ {g} :
       \A i, j \in 1..Len(emitted') :
         (/\ IsChange(emitted'[i], g, POSSIBLE, RECOGNIZING)
          /\ emitted'[j].type = "state" /\ emitted'[j].gesture = o
          /\ emitted'[j].new = CANCELLED)
         => j < i /\ emitted'[i].seen[o] \in {CANCELLED, WAITING}]_vars

\* how many public points of the sequence of key the gesture shows
PublicCount(g, key) ==
  Cardinality({i \in 1..Len(public_points[g]) : public_points[g][i] = key})

\* the call ran vfunc of the class of g
Called(log, g, vfunc) ==
  \E i \in 1..Len(log) : log[i].type = vfunc /\ log[i].gesture = g

\* C20: for a POSSIBLE or RECOGNIZING gesture that holds the pointer point, a
\* further BUTTON_PRESS only raises the depth: it adds no public point and
\* calls no points_began; a BUTTON_RELEASE that leaves the depth above zero
\* only lowers it: it removes no point and calls no points_ended; the
\* BUTTON_RELEASE that brings the depth to zero removes the point. The
\* gesture shows exactly one public point for the pointer until then and
\* none afterwards.
OnlyOuterButtonEventsDelivered ==
  [][\A g \in Gestures :
       LET i == PointIndexFrom(points[g], Pointer, 1) IN
         (i # 0 /\ state[g] \in {POSSIBLE, RECOGNIZING}) =>
           /\ PublicCount(g, Pointer) = 1
           /\ SequenceEvent(Pointer, BUTTON_PRESS, FALSE) =>
                /\ points'[g] =
                     [points[g] EXCEPT ![i].n_buttons_pressed = @ + 1]
                /\ public_points'[g] = public_points[g]
                /\ ~Called(emitted', g, "points_began")
                /\ ~aborted'
           /\ (/\ SequenceEvent(Pointer, BUTTON_RELEASE, FALSE)
               /\ points[g][i].n_buttons_pressed > 1) =>
                /\ points'[g] =
                     [points[g] EXCEPT ![i].n_buttons_pressed = @ - 1]
                /\ public_points'[g] = public_points[g]
                /\ ~Called(emitted', g, "points_ended")
                /\ ~aborted'
           /\ (/\ SequenceEvent(Pointer, BUTTON_RELEASE, FALSE)
               /\ points[g][i].n_buttons_pressed = 1) =>
                /\ PointIndexFrom(points'[g], Pointer, 1) = 0
                /\ PublicCount(g, Pointer)' = 0
                /\ Len(points'[g]) = Len(points[g]) - 1
                /\ Len(public_points'[g]) = Len(public_points[g]) - 1
                /\ ~aborted']_vars

\* Two buttons are down on the pointer point of gesture 1, which still shows
\* one public point.
OnlyOuterButtonEventsDeliveredWitness ==
  /\ ~aborted
  /\ state[1] = POSSIBLE
  /\ Len(points[1]) = 1 /\ points[1][1].key = Pointer
  /\ points[1][1].n_buttons_pressed = 2
  /\ public_points[1] = <<Pointer>>

\* ---- failure requirements ----

\* a gesture self requires to fail entered a state that settles the matter
PeerResolved(log, self) ==
  \E p \in require_failure_of[self] :
    Entered(log, p, CANCELLED) \/ Entered(log, p, RECOGNIZING)
      \/ Entered(log, p, COMPLETED)

StillRequired(g) ==
  {p \in require_failure_of[g] :
     state[p] \in {POSSIBLE, RECOGNIZE_PENDING, RECOGNIZING}}

\* the call cancelled every gesture g still required to fail, and none of the
\* gestures g requires to fail recognized in it
LastPeerFails(log, g) ==
  /\ StillRequired(g) # {}
  /\ \A p \in StillRequired(g) : Entered(log, p, CANCELLED)
  /\ \A p \in require_failure_of[g] :
       ~Entered(log, p, RECOGNIZING) /\ ~Entered(log, p, COMPLETED)

\* the call promoted the pending g, up to COMPLETED if that was its request
Promoted(log, g) ==
  IF pending_request[g] = COMPLETED
  THEN ChangedThen(log, g, RECOGNIZE_PENDING, RECOGNIZING, RECOGNIZING, COMPLETED)
  ELSE Changed(log, g, RECOGNIZE_PENDING, RECOGNIZING)
         /\ ~Entered(log, g, COMPLETED)

\* g asks for RECOGNIZING or COMPLETED with a required gesture CANCELLED and
\* none left to wait for
DirectRequest(g) ==
  /\ state[g] = POSSIBLE
  /\ StillRequired(g) = {}
  /\ \E p \in require_failure_of[g] : state[p] = CANCELLED
  /\ \E s \in {RECOGNIZING, COMPLETED} : RequestState(g, s, TRUE)

\* C22: a RECOGNIZE_PENDING gesture is promoted to RECOGNIZING in the call in
\* which the last gesture it requires to fail becomes CANCELLED, and goes on
\* to COMPLETED in that call, after RECOGNIZING, if that was its request,
\* unless that call cancels the pending gesture too; a request made when the
\* required gesture is CANCELLED already never passes through
\* RECOGNIZE_PENDING.
PromotedWhenLastPeerFails ==
  [][\A g \in Gestures :
       /\ ( state[g] = RECOGNIZE_PENDING /\ LastPeerFails(emitted', g)
            /\ ~Changed(emitted', g, RECOGNIZE_PENDING, CANCELLED) )
          => Promoted(emitted', g)
       /\ DirectRequest(g)
          => /\ ~Entered(emitted', g, RECOGNIZE_PENDING)
             /\ Changed(emitted', g, POSSIBLE, RECOGNIZING)]_vars

\* g1, pending with a request for COMPLETED, has been promoted by the
\* cancellation of g2 and has gone through RECOGNIZING to COMPLETED
PromotedWhenLastPeerFailsWitness ==
  /\ 2 \in require_failure_of[1]
  /\ Changed(emitted, 2, POSSIBLE, CANCELLED)
  /\ ChangedThen(emitted, 1, RECOGNIZE_PENDING, RECOGNIZING, RECOGNIZING, COMPLETED)
  /\ state[1] = COMPLETED
  /\ ~aborted

\* C22 as stated: the promotion happens whenever the last required gesture
\* becomes CANCELLED.
PromotedWheneverLastPeerFails ==
  [][\A g \in Gestures :
       ( state[g] = RECOGNIZE_PENDING /\ LastPeerFails(emitted', g) )
       => Promoted(emitted', g)]_vars

\* the call notified g entering new from another state
EnteredFrom(log, g, new) ==
  \E i \in 1..Len(log) :
    /\ log[i].type = "state" /\ log[i].gesture = g
    /\ log[i].new = new /\ log[i].old # new

\* C23: a RECOGNIZE_PENDING gesture is moved to CANCELLED in the call in which
\* a gesture it requires to fail enters RECOGNIZING or COMPLETED, and that
\* call never shows it RECOGNIZING.
PendingCancelledWhenPeerRecognizes ==
  [][\A g \in Gestures :
       ( /\ state[g] = RECOGNIZE_PENDING
         /\ \E p \in require_failure_of[g] :
              EnteredFrom(emitted', p, RECOGNIZING)
                \/ EnteredFrom(emitted', p, COMPLETED) )
       => /\ Changed(emitted', g, RECOGNIZE_PENDING, CANCELLED)
          /\ ~Entered(emitted', g, RECOGNIZING)
          /\ state'[g] \in {CANCELLED, WAITING}]_vars

\* g2, which g1 can not cancel and requires to fail, has recognized while g1
\* was pending: g1 is CANCELLED, g2 still RECOGNIZING
PendingCancelledWhenPeerRecognizesWitness ==
  /\ 2 \in require_failure_of[1]
  /\ 1 \in can_not_cancel[2]
  /\ Changed(emitted, 2, POSSIBLE, RECOGNIZING)
  /\ Changed(emitted, 1, RECOGNIZE_PENDING, CANCELLED)
  /\ state[1] = CANCELLED
  /\ state[2] = RECOGNIZING
  /\ ~aborted

DecisionMade(a, b) ==
  Contains(cancel_on_recognizing[a], b) <=> b \notin can_not_cancel[a]

\* C25: relationships_changed (g2) makes the decisions of the pairs of g2 again,
\* so that a can_not_cancel (g1, g2) declared after the pairing counts; from
\* then on g1 entering RECOGNIZING leaves g2 POSSIBLE and in the pair, and g2
\* entering RECOGNIZING after that cancels g1.
ChangedRelationshipIsRecomputed ==
  [][\A g1, g2 \in Pair : (g1 # g2 /\ g1 \in in_relationship_with[g2]) =>
       /\ clutter_gesture_relationships_changed(g2)
          => DecisionMade(g1, g2)' /\ DecisionMade(g2, g1)'
       /\ ( /\ g2 \in can_not_cancel[g1] /\ g1 \notin can_not_cancel[g2]
            /\ DecisionMade(g1, g2) /\ DecisionMade(g2, g1)
            /\ state[g1] = POSSIBLE /\ state[g2] = POSSIBLE
            /\ clutter_gesture_set_state(g1, RECOGNIZING, TRUE) )
          => /\ state'[g1] = RECOGNIZING /\ state'[g2] = POSSIBLE
             /\ g1 \in in_relationship_with'[g2]
             /\ Contains(cancel_on_recognizing'[g2], g1)
       /\ ( /\ Contains(cancel_on_recognizing[g2], g1)
            /\ state[g1] = RECOGNIZING /\ state[g2] = POSSIBLE
            /\ clutter_gesture_set_state(g2, RECOGNIZING, TRUE) )
          => /\ state'[g2] = RECOGNIZING
             /\ Changed(emitted', g1, RECOGNIZING, CANCELLED)]_vars

\* can_not_cancel (g1, g2) was declared with the pair made already, the
\* decisions were made again, g1 recognized and g2 after it
ChangedRelationshipIsRecomputedWitness ==
  /\ can_not_cancel = <<{2}, {}, {}>>
  /\ state[2] = RECOGNIZING
  /\ Changed(emitted, 1, RECOGNIZING, CANCELLED)
  /\ Changed(emitted, 2, POSSIBLE, RECOGNIZING)
  /\ ~aborted

\* ---- the click gesture ----

\* the click gesture is handed a motion of a point it holds, to coords
ClickMoved(key, coords) ==
  /\ state[Recognizer] \in {POSSIBLE, RECOGNIZING}
  /\ Contains(public_points[Recognizer], key)
  /\ ClickEvent(key, IF Device(key) = "pointer" THEN MOTION ELSE TOUCH_UPDATE,
                coords, 0, FALSE, TRUE)

\* C26: the click gesture emits clicked only in a call that moves it into
\* COMPLETED, and at most once; a point that moves farther than a
\* cancel-threshold >= 0 from where it began cancels the gesture without
\* clicked, and a cancelled gesture emits no clicked until its points are
\* gone; a point that moves no farther than the threshold (5 with a threshold
\* of 10) leaves the state as it is, one that moves farther (15) cancels.
ClickedOnlyWithoutFarMove ==
  [][/\ subclass'.clicked > 0
          => subclass'.clicked = 1 /\ Entered(emitted', Recognizer, COMPLETED)
     /\ state[Recognizer] = CANCELLED
          => /\ subclass'.clicked = 0
             /\ state'[Recognizer] \in {CANCELLED, WAITING}
             /\ state'[Recognizer] = WAITING => points'[Recognizer] = <<>>
     /\ \A key \in AllKeys, coords \in Coords : ClickMoved(key, coords) =>
          IF DistanceExceeds(coords, subclass.begin_coords[key],
                             subclass.cancel_threshold)
          THEN /\ Entered(emitted', Recognizer, CANCELLED)
               /\ state'[Recognizer] = CANCELLED
               /\ subclass'.clicked = 0
          ELSE /\ state'[Recognizer] = state[Recognizer]
               /\ ~Notified(emitted', Recognizer)]_vars

\* with a threshold of 10 the release of the point has completed the gesture
\* and clicked has been emitted
ClickedOnlyWithoutFarMoveWitness ==
  /\ subclass.cancel_threshold = 10
  /\ subclass.clicked = 1
  /\ ChangedThen(emitted, Recognizer, POSSIBLE, RECOGNIZING, RECOGNIZING, COMPLETED)
  /\ ~aborted

\* ---- the pan gesture ----

\* the pan gesture is handed a motion, to coords, of the point it tracks
PanMoved(key, coords) ==
  /\ Contains(public_points[Recognizer], key)
  /\ subclass.point[key].index = subclass.use_point
  /\ \E time \in PanTimes : PanEvent(key, TOUCH_UPDATE, coords, time, NothingRead, TRUE)

\* total_delta as the motion to coords leaves it
MovedBy(key, coords) ==
  [subclass EXCEPT !.total_delta =
     VecAdd(@, VecSub(coords, subclass.point[key].latest_coords))]

\* the number of live points is at least min-n-points and within
\* max-n-points, where 0 is no limit
PointCountInRange ==
  /\ Len(public_points[Recognizer]) >= subclass.min_n_points
  /\ subclass.max_n_points = 0
       \/ Len(public_points[Recognizer]) <= subclass.max_n_points

\* C27: the motion of the tracked point of a pan in POSSIBLE that brings the
\* displacement on the pan axis to the begin-threshold takes the pan to
\* RECOGNIZING whenever the number of live points is in range, 0 for
\* max-n-points meaning no limit.
MoveToThresholdBegins ==
  [][\A key \in PanKeys, coords \in PanCoords :
       /\ state[Recognizer] = POSSIBLE
       /\ PointCountInRange
       /\ ReachesThreshold(MovedBy(key, coords))
       /\ PanMoved(key, coords)
       => /\ Entered(emitted', Recognizer, RECOGNIZING)
          /\ state'[Recognizer] = RECOGNIZING]_vars

\* the stored deltas whose time lies within the 150 ms before the time last
InWindow(history, last) ==
  SelectSeq(history,
            LAMBDA e : e.time >= last - EVENT_HISTORY_DURATION_MS /\ e.time <= last)

\* the sum of the deltas of the entries from the i-th on
RECURSIVE SumOfDeltas(_, _)
SumOfDeltas(entries, i) ==
  IF i > Len(entries) THEN <<0, 0>>
  ELSE VecAdd(entries[i].delta, SumOfDeltas(entries, i + 1))

\* the velocity a pan-end signal carries is the quotient sum / time_delta
IsQuotient(velocity, sum, time_delta) ==
  IF velocity.time_delta = 0 THEN sum = <<0, 0>>
  ELSE /\ velocity.accumulated_deltas[1] * time_delta = sum[1] * velocity.time_delta
       /\ velocity.accumulated_deltas[2] * time_delta = sum[2] * velocity.time_delta

\* pan-end has been emitted with the velocity the entries give
EndsWith(signals, entries) ==
  \E i \in 1..Len(signals) :
    /\ signals[i].name = "pan-end"
    /\ Len(entries) > 0 /\ entries[Len(entries)].time # entries[1].time
         => IsQuotient(signals[i].velocity, SumOfDeltas(entries, 1),
                       entries[Len(entries)].time - entries[1].time)

\* the last touch point of a recognizing pan is released at the time given
PanReleased(time, null_read) ==
  /\ state[Recognizer] = RECOGNIZING
  /\ \E key \in PanKeys, coords \in XCoords :
       /\ public_points[Recognizer] = <<key>>
       /\ PanEvent(key, TOUCH_END, coords, time, null_read, TRUE)

\* C28: a pan that goes from RECOGNIZING to COMPLETED emits pan-end with the
\* velocity (sum of the stored deltas within 150 ms before the last event) /
\* (time of the last such entry - time of the first), whatever the event
\* times are: deltas 0, 10, 10 at 0, 50, 100 and an end at 100 give 0.2.
PanEndCarriesWindowVelocity ==
  [][\A time \in PanTimes, null_read \in NullReads :
       PanReleased(time, null_read)
       => /\ Entered(emitted', Recognizer, COMPLETED)
          /\ EndsWith(subclass'.signals, InWindow(subclass.event_history, time))]_vars

\* ---- the long-press gesture ----

Emitted(signals, name) == \E i \in 1..Len(signals) : signals[i] = name

\* the point of the long-press gesture is released
LongPressReleased ==
  \E key \in AllKeys, coords \in Coords, button \in 0..MaxButtons, mr \in BOOLEAN :
    /\ public_points[Recognizer] = <<key>>
    /\ LongPressEvent(key, IF Device(key) = "pointer" THEN BUTTON_RELEASE
                           ELSE TOUCH_END, coords, button, mr)
    /\ points'[Recognizer] = <<>>

\* long-press-begin comes with the entry into RECOGNIZING, which the timer
\* causes (or the press itself, when the duration is 0)
BeginWhenTimerFires ==
  /\ Emitted(subclass'.signals, "long-press-begin")
       <=> Entered(emitted', Recognizer, RECOGNIZING)
  /\ Emitted(subclass'.signals, "long-press-begin")
       => \/ \E mr \in BOOLEAN : long_press_cb(mr)
          \/ subclass.long_press_duration = 0 /\ state[Recognizer] = WAITING

\* long-press-end comes only with a release that follows long-press-begin
EndOnlyAfterBegin ==
  Emitted(subclass'.signals, "long-press-end")
    => state[Recognizer] = RECOGNIZING /\ LongPressReleased

\* C29: within one press, long-press-begin is emitted exactly when the timer
\* fires and the gesture enters RECOGNIZING, long-press-end only on a release
\* that follows long-press-begin, and a release before the timer has fired
\* emits long-press-cancel, neither long-press-begin nor long-press-end, and
\* leaves no timer pending.
EarlyReleaseEmitsCancel ==
  [][/\ BeginWhenTimerFires
     /\ EndOnlyAfterBegin
     /\ subclass.long_press_timeout_id # 0 /\ LongPressReleased
          => /\ Emitted(subclass'.signals, "long-press-cancel")
             /\ ~Emitted(subclass'.signals, "long-press-begin")
             /\ ~Emitted(subclass'.signals, "long-press-end")
             /\ subclass'.long_press_timeout_id = 0]_vars

\* ---- the registry of active gestures ----

\* how often the gesture is in the array from the i-th entry on
RECURSIVE TimesIn(_, _, _)
TimesIn(array, g, i) ==
  IF i > Len(array) THEN 0
  ELSE (IF array[i] = g THEN 1 ELSE 0) + TimesIn(array, g, i + 1)

\* C30: between calls, all_active_gestures holds exactly the gestures whose
\* state is not WAITING, each of them once: a gesture is added with its
\* accepted WAITING -> POSSIBLE and removed when it enters WAITING or is
\* finalized.
ActiveGesturesAreTheNonWaiting ==
  ~aborted =>
    \A g \in Gestures :
      TimesIn(all_active_gestures, g, 1) = IF state[g] = WAITING THEN 0 ELSE 1

\* a gesture has completed and cancelled the other one; both still hold the
\* point and both are in the array
ActiveGesturesAreTheNonWaitingWitness ==
  /\ ~aborted
  /\ state[1] = COMPLETED /\ state[2] = CANCELLED
  /\ points[1] # <<>> /\ points[2] # <<>>
  /\ Len(all_active_gestures) = 2

\* ---- synthetic events ----

\* C31: a sequence whose BUTTON_PRESS or TOUCH_BEGIN carries the synthetic
\* flag, offered to gestures and then delivered to those that took it, leaves
\* the state, the private and the public points of every gesture and the
\* registry of active gestures as they were.
SyntheticBeginHasNoEffect ==
  [][(\E k \in AllKeys, offered \in SUBSET Gestures, vetoers \in SUBSET Gestures :
        SequenceBegin(k, offered, TRUE, vetoers))
     => UNCHANGED <<state, points, public_points, all_active_gestures>>]_vars

\* ---- events for a gesture that is over ----

PointKeys(pts) == {pts[i].key : i \in 1..Len(pts)}

\* the event of a sequence is the one after which the private point goes:
\* a touch end, a touch cancel, or the release of the last pressed button
RemovesPoint(g, key, type) ==
  \/ type \in {TOUCH_END, TOUCH_CANCEL}
  \/ /\ type = BUTTON_RELEASE
     /\ points[g][PointIndexFrom(points[g], key, 1)].n_buttons_pressed = 1

PointVfuncs == {VfuncOf(t) : t \in EventTypes \cup {BUTTON_PRESS, TOUCH_BEGIN}}

\* the instance data of the recognizer that its vfuncs write
VfuncData(c) == [c EXCEPT !.clicked = 0, !.begin_coords = <<>>]

\* what ClickEvent hands to CommitClick for the event
ClickEventResult(key, type, coords, button, on_actor, mr) ==
  click_handle_event(
    World([AllTrue EXCEPT ![Recognizer] = mr]),
    [subclass EXCEPT !.clicked = 0],
    [type |-> type, key |-> key, synthetic |-> FALSE,
     coords |-> coords, button |-> button, on_actor |-> on_actor])

\* the event is one ClickEvent can deliver in this state
ClickEventPossible(key, type, button, on_actor) ==
  /\ ~aborted
  /\ key \in PointKeys(points[Recognizer])
  /\ type \in FollowTypes(key)
  /\ button = 0 <=> type \notin {BUTTON_PRESS, BUTTON_RELEASE}
  /\ on_actor => type \in {ENTER, LEAVE}
  /\ type = BUTTON_PRESS =>
       \A i \in 1..Len(points[Recognizer]) :
         points[Recognizer][i].n_buttons_pressed < MaxButtons

\* the event was absorbed: r is what the handler left
Absorbed(r, key, type) ==
  /\ ~r.w.aborted
  /\ r.w.public_points[Recognizer] = <<>>
  /\ VfuncData(r.c) = VfuncData(subclass)
  /\ \A i \in 1..Len(r.w.emitted) : r.w.emitted[i].type \notin PointVfuncs
  /\ IF RemovesPoint(Recognizer, key, type)
     THEN /\ PointKeys(r.w.points[Recognizer])
               = PointKeys(points[Recognizer]) \ {key}
          /\ r.w.state[Recognizer]
               = IF Len(points[Recognizer]) = 1 THEN WAITING
                 ELSE state[Recognizer]
     ELSE /\ PointKeys(r.w.points[Recognizer]) = PointKeys(points[Recognizer])
          /\ r.w.state[Recognizer] = state[Recognizer]

\* C32: in every state in which the click gesture is CANCELLED or COMPLETED,
\* an event of a sequence it holds reaches none of its vfuncs (its instance
\* data stay as they were) and creates no public point; a touch end, a touch
\* cancel or the release of the last button removes the private point of the
\* sequence (the gesture goes to WAITING with its last point), and any other
\* event leaves the private points and the state as they were.
TerminalGestureAbsorbsEvents ==
  state[Recognizer] \in {CANCELLED, COMPLETED} =>
    \A k \in AllKeys, t \in EventTypes, c \in Coords, b \in 0..MaxButtons,
       on_actor, mr \in BOOLEAN :
      ClickEventPossible(k, t, b, on_actor)
      => Absorbed(ClickEventResult(k, t, c, b, on_actor, mr), k, t)

\* the click gesture was cancelled while it held both touch points; the end
\* of the first one has been absorbed and the second one is still held
TerminalGestureAbsorbsEventsWitness ==
  /\ ~aborted
  /\ state[Recognizer] = CANCELLED
  /\ PointKeys(points[Recognizer]) = {<<"touch", 2>>}
  /\ public_points[Recognizer] = <<>>
  /\ emitted = <<>>

\* ---- a gesture is taken off its actor ----

\* the points_cancelled calls in the log
RECURSIVE CancelledBatches(_, _)
CancelledBatches(log, i) ==
  IF i > Len(log) THEN <<>>
  ELSE (IF log[i].type = "points_cancelled" THEN <<log[i].points>> ELSE <<>>)
         \o CancelledBatches(log, i + 1)

\* the instance data of the pan gesture apart from the signals of the call
PanData(c) == [c EXCEPT !.signals = <<>>]

\* C33: taking the pan gesture off its actor while it has public points
\* calls points_cancelled once, with all its public points, and leaves it
\* without private and public points; taking it off while it is COMPLETED or
\* CANCELLED calls nothing and leaves its state, its private points and its
\* instance data as they were.
DetachCancelsAllPoints ==
  [][PanDetached =>
       /\ ~aborted'
       /\ public_points[Recognizer] # <<>>
          => /\ CancelledBatches(emitted', 1) = <<public_points[Recognizer]>>
             /\ points'[Recognizer] = <<>>
             /\ public_points'[Recognizer] = <<>>
       /\ state[Recognizer] \in {COMPLETED, CANCELLED}
          => /\ public_points[Recognizer] = <<>>
             /\ emitted' = <<>>
             /\ state'[Recognizer] = state[Recognizer]
             /\ points'[Recognizer] = points[Recognizer]
             /\ PanData(subclass') = PanData(subclass)]_vars

\* the pan gesture was taken off its actor while it was recognizing with
\* two points: both went in one call, and it has cancelled and is WAITING
DetachCancelsAllPointsWitness ==
  /\ ~aborted
  /\ CancelledBatches(emitted, 1) = <<<< <<"touch", 1>>, <<"touch", 2>> >>>>
  /\ Changed(emitted, Recognizer, RECOGNIZING, CANCELLED)
  /\ state[Recognizer] = WAITING
  /\ points[Recognizer] = <<>> /\ public_points[Recognizer] = <<>>

\* ---- the chain of changes of one call ----

\* The order in which a gesture passes through its states in an episode
Rank(s) ==
  CASE s = WAITING -> 0
    [] s = POSSIBLE -> 1
    [] s = RECOGNIZE_PENDING -> 2
    [] s = RECOGNIZING -> 3
    [] s \in {COMPLETED, CANCELLED} -> 4

\* the changes of g in the log go up in rank, each from where the one before
\* ended, except that the first one may be the request for RECOGNIZING of a
\* recognizing gesture and the last one may end the episode in WAITING
GoesForward(log, g) ==
  LET n == NotificationsOf(log, g, 1) IN
    \A k \in 1..Len(n) :
      /\ k > 1 => n[k].old = n[k - 1].new
      /\ \/ Rank(n[k].old) < Rank(n[k].new)
         \/ k = 1 /\ n[k].old = RECOGNIZING /\ n[k].new = RECOGNIZING
         \/ /\ k = Len(n)
            /\ n[k].old \in {COMPLETED, CANCELLED}
            /\ n[k].new = WAITING

\* C34: every call has ended, and the chain of cancellations and completions
\* it triggered is finite: in the log of the call each gesture only moves
\* forward (WAITING, POSSIBLE, RECOGNIZING, then COMPLETED or CANCELLED; the
\* request may repeat RECOGNIZING once, at the start) and returns to WAITING
\* at most once, as its last change, so that no gesture is notified more
\* than four times in one chain.
CascadeIsFinite ==
  \A g \in Gestures :
    /\ GoesForward(emitted, g)
    /\ Len(NotificationsOf(emitted, g, 1)) <= 4

\* one request made gesture 1 recognize and complete, and cancelled the two
\* other gestures, which went back to WAITING: seven changes of state
CascadeIsFiniteWitness ==
  /\ ~aborted
  /\ ChangedThen(emitted, 1, POSSIBLE, RECOGNIZING, RECOGNIZING, COMPLETED)
  /\ ChangedThen(emitted, 2, POSSIBLE, CANCELLED, CANCELLED, WAITING)
  /\ ChangedThen(emitted, 3, POSSIBLE, CANCELLED, CANCELLED, WAITING)

\* ---- the cancel_on_recognizing array ----

\* C35: between calls, every gesture in the cancel_on_recognizing array of a
\* gesture is in its in_relationship_with set, and is in the array once; a
\* peer that went back to WAITING is in no array of the gestures it was
\* related to.
CancelListWithinRelationships ==
  \A g \in Gestures :
    \A i \in 1..Len(cancel_on_recognizing[g]) :
      /\ cancel_on_recognizing[g][i] \in in_relationship_with[g]
      /\ \A j \in 1..Len(cancel_on_recognizing[g]) :
           cancel_on_recognizing[g][j] = cancel_on_recognizing[g][i] => j = i

\* ---- the hint of a pairing ----

\* the hint the pairing of a and b returns when it links them: both
\* directions are decided by setup_influence_on_other_gesture
FirstHint(a, b) ==
  RelationshipHint(setup_influence_on_other_gesture(World(AllTrue), b, a),
                   setup_influence_on_other_gesture(World(AllTrue), a, b))

\* the hint a pairing of a and b returns while they are linked: both
\* directions are looked up in the cancel_on_recognizing arrays
StoredHint(a, b) ==
  RelationshipHint(Contains(cancel_on_recognizing[b], a),
                   Contains(cancel_on_recognizing[a], b))

\* C36: the pairing that links a and b returns -1 when a cancels b and b
\* does not cancel a, 1 the other way round and 0 otherwise, each direction
\* being to cancel unless can_not_cancel forbids it, and these are the
\* polarities it stores: a pairing of the linked pair returns the same hint.
LinkedPairKeepsItsHint ==
  [][\A a, b \in Gestures :
       (/\ a # b /\ ~aborted'
        /\ b \notin in_relationship_with[a]
        /\ b \in in_relationship_with'[a])
       => StoredHint(a, b)' = FirstHint(a, b)]_vars

\* ---- the permission to start next to a recognizing gesture ----

\* other is the one gesture that is RECOGNIZING, and it is not in
\* relationship with self
OnlyRecognizingStranger(self, other) ==
  /\ self # other
  /\ state[other] = RECOGNIZING
  /\ other \notin in_relationship_with[self]
  /\ \A g \in Gestures \ {self, other} : state[g] # RECOGNIZING

\* C37 (as the code behaves): when the unrelated gesture that is RECOGNIZING
\* is in the recognize_independently_from set of self (the set declared on
\* self), a request that moves self from WAITING to POSSIBLE or from
\* POSSIBLE to RECOGNIZING, with the may-recognize handlers agreeing, is
\* granted; when it is not in that set, the move from WAITING to POSSIBLE is
\* refused, whatever the set of the recognizing gesture holds.
StartAllowedByOwnPermission ==
  [][\A self, other \in Gestures :
       (OnlyRecognizingStranger(self, other) /\ ~aborted')
       => /\ (/\ other \in recognize_independently_from[self]
              /\ state[self] = WAITING
              /\ clutter_gesture_set_state(self, POSSIBLE, TRUE))
             => /\ state'[self] = POSSIBLE
                /\ Changed(emitted', self, WAITING, POSSIBLE)
                /\ ~Refused(emitted', self)
          /\ (/\ other \in recognize_independently_from[self]
              /\ state[self] = POSSIBLE
              /\ clutter_gesture_set_state(self, RECOGNIZING, TRUE))
             => /\ state'[self] = RECOGNIZING
                /\ ~Refused(emitted', self)
          /\ (/\ other \notin recognize_independently_from[self]
              /\ state[self] = WAITING
              /\ clutter_gesture_set_state(self, POSSIBLE, TRUE))
             => /\ state'[self] = WAITING
                /\ Refused(emitted', self)]_vars

\* gesture 2 was granted WAITING -> POSSIBLE next to the recognizing gesture
\* 1 on its own permission; gesture 1 holds no permission
StartAllowedByOwnPermissionWitness ==
  /\ ~aborted
  /\ state[1] = RECOGNIZING /\ state[2] = POSSIBLE
  /\ 2 \notin in_relationship_with[1]
  /\ 1 \in recognize_independently_from[2]
  /\ 2 \notin recognize_independently_from[1]
  /\ Changed(emitted, 2, WAITING, POSSIBLE)

\* C37 as stated: self is allowed to start when self is in the
\* recognize_independently_from set of the recognizing gesture.
StartAllowedByPeersPermission ==
  [][\A self, other \in Gestures :
       (/\ OnlyRecognizingStranger(self, other)
        /\ self \in recognize_independently_from[other]
        /\ state[self] = WAITING
        /\ clutter_gesture_set_state(self, POSSIBLE, TRUE))
       => state'[self] = POSSIBLE]_vars

\* ---- ClutterActorGrab (clutter-actor-grab.c) ----

\* The actors of the scene: actor 1 is the stage, the parent of actor a is
\* a \div 2; 0 stands for NULL.
NumActors == 5

Actors == 1..NumActors

clutter_actor_get_parent(a) == a \div 2

CrossingModes == {"CLUTTER_CROSSING_NORMAL", "CLUTTER_CROSSING_GRAB",
                  "CLUTTER_CROSSING_UNGRAB"}

\* descendant is self or below it; FALSE for a NULL descendant
RECURSIVE clutter_actor_contains(_, _)
clutter_actor_contains(self, descendant) ==
  IF descendant = 0 THEN FALSE
  ELSE IF descendant = self THEN TRUE
  ELSE clutter_actor_contains(self, clutter_actor_get_parent(descendant))

\* the loop of the grab without an actor: the first of old_actor and its
\* ancestors that contains new_actor, NULL when there is none
RECURSIVE CommonAncestor(_, _)
CommonAncestor(topmost_actor, new_actor) ==
  IF topmost_actor = 0 THEN 0
  ELSE IF clutter_actor_contains(topmost_actor, new_actor) THEN topmost_actor
  ELSE CommonAncestor(clutter_actor_get_parent(topmost_actor), new_actor)

Bottommost(grab_actor, old_actor, new_actor, mode) ==
  IF grab_actor = 0 THEN 0
  ELSE IF mode = "CLUTTER_CROSSING_UNGRAB"
          /\ clutter_actor_contains(grab_actor, new_actor) THEN grab_actor
  ELSE IF mode = "CLUTTER_CROSSING_GRAB"
          /\ clutter_actor_contains(grab_actor, old_actor) THEN grab_actor
  ELSE 0

clutter_emit_crossing_event(old_actor, new_actor, topmost_actor,
                            bottommost_actor, mode) ==
  <<[type |-> "crossing", old_actor |-> old_actor, new_actor |-> new_actor,
     topmost_actor |-> topmost_actor, bottommost_actor |-> bottommost_actor,
     mode |-> mode]>>

\* focus_event: what the grab hands to clutter_emit_crossing_event
focus_event(grab_actor, old_actor, new_actor, mode) ==
  IF old_actor # 0 /\ new_actor # 0
  THEN IF grab_actor # 0
       THEN IF /\ ~clutter_actor_contains(grab_actor, old_actor)
               /\ ~clutter_actor_contains(grab_actor, new_actor)
            THEN <<>>
            ELSE clutter_emit_crossing_event(
                   IF clutter_actor_contains(grab_actor, old_actor)
                   THEN old_actor ELSE 0,
                   IF clutter_actor_contains(grab_actor, new_actor)
                   THEN new_actor ELSE 0,
                   grab_actor,
                   Bottommost(grab_actor, old_actor, new_actor, mode), mode)
       ELSE clutter_emit_crossing_event(
              old_actor, new_actor, CommonAncestor(old_actor, new_actor),
              0, mode)
  ELSE clutter_emit_crossing_event(
         old_actor, new_actor, 0,
         Bottommost(grab_actor, old_actor, new_actor, mode), mode)

\* clutter_grab_emit_focus on the grab; the crossing handed in is kept next
\* to the grab actor
GrabEmitFocus(old_actor, new_actor, mode) ==
  /\ subclass.type = "ClutterActorGrab"
  /\ subclass' = [subclass EXCEPT !.old_actor = old_actor,
                                  !.new_actor = new_actor, !.mode = mode]
  /\ emitted' = focus_event(subclass.grab_actor, old_actor, new_actor, mode)
  /\ UNCHANGED <<state, points, public_points, in_relationship_with,
                 cancel_on_recognizing, can_not_cancel,
                 recognize_independently_from, all_active_gestures,
                 require_failure_of, pending_request, aborted>>

\* clutter_actor_grab_new (grab_actor), grab_actor may be NULL
InitGrab ==
  /\ InitGesture
  /\ \E grab_actor \in {0} \cup Actors :
       subclass = [type |-> "ClutterActorGrab", grab_actor |-> grab_actor,
                   old_actor |-> 0, new_actor |-> 0, mode |-> ""]

NextGrab ==
  \E old_actor, new_actor \in {0} \cup Actors, mode \in CrossingModes :
    GrabEmitFocus(old_actor, new_actor, mode)

SpecGrab == InitGrab /\ [][NextGrab]_vars

\* the last call was a crossing on a grab with an actor
GrabbedCrossing == subclass.type = "ClutterActorGrab" /\ subclass.mode # ""
                   /\ subclass.grab_actor # 0

OldInside == clutter_actor_contains(subclass.grab_actor, subclass.old_actor)

NewInside == clutter_actor_contains(subclass.grab_actor, subclass.new_actor)

\* C38: for an actor grab on T and every crossing, absent actors included:
\* nothing is forwarded when neither actor is inside the sub-tree of T;
\* otherwise one crossing is forwarded, with an actor outside the sub-tree
\* replaced by NULL and an actor inside it unchanged.
CrossingFilteredBySubtree ==
  GrabbedCrossing
  => IF ~OldInside /\ ~NewInside
     THEN emitted = <<>>
     ELSE /\ Len(emitted) = 1
          /\ emitted[1].old_actor = (IF OldInside THEN subclass.old_actor ELSE 0)
          /\ emitted[1].new_actor = (IF NewInside THEN subclass.new_actor ELSE 0)

\* ---- the timers of the click and the long-press gesture ----

\* the multi-click timeout, or the long-press timeout, is pending
TimerPending ==
  IF subclass.type = "ClutterClickGesture"
  THEN subclass.next_click_timeout_id # 0
  ELSE subclass.long_press_timeout_id # 0

\* C39 (as the code behaves): between calls the timer of a click or a
\* long-press gesture is never pending in WAITING, COMPLETED or CANCELLED,
\* so every transition into COMPLETED or CANCELLED leaves no timer pending;
\* it is pending in POSSIBLE, and in RECOGNIZING only when the application
\* itself has requested RECOGNIZING while the timer was pending.
TimerEndsWithTheGesture ==
  /\ [](TimerPending => state[Recognizer] \in {POSSIBLE, RECOGNIZING})
  /\ [][(/\ TimerPending'
         /\ state'[Recognizer] = RECOGNIZING
         /\ state[Recognizer] # RECOGNIZING)
        => \E mr \in BOOLEAN : \/ ClickRequested(RECOGNIZING, mr)
                               \/ LongPressRequested(RECOGNIZING, mr)]_vars

\* a click gesture that needs two clicks was cancelled with its point still
\* down: the timer its press started is gone
TimerEndsWithTheGestureWitness ==
  /\ subclass.type = "ClutterClickGesture"
  /\ subclass.n_clicks_required = 2
  /\ state[Recognizer] = CANCELLED
  /\ Len(points[Recognizer]) = 1
  /\ Changed(emitted, Recognizer, POSSIBLE, CANCELLED)
  /\ subclass.next_click_timeout_id = 0

\* C39 as stated: a timer is pending only while the gesture is POSSIBLE.
TimerOnlyWhilePossible ==
  TimerPending => state[Recognizer] = POSSIBLE

\* ---- a gesture class whose points_* vfuncs call back into the gesture ----

\* What a points_* vfunc of the class (or a handler of a signal it emits)
\* does with the gesture it was called for
Reactions == {"none", "set_state_recognizing", "set_state_cancelled",
              "remove_action", "cancel_and_remove"}

\* priv->emission_points is kept with the instance data
ReentrantInstance == [type |-> "ReentrantGesture", emission_points |-> <<>>]

\* g_ptr_array_set_size (priv->emission_points, 0) after a vfunc returned
ClearEmission(cw) ==
  IF cw.w.aborted THEN cw
  ELSE [w |-> cw.w, c |-> [cw.c EXCEPT !.emission_points = <<>>]]

\* cancel_all_points called while priv->emission_points may be in use; its
\* own points_cancelled call is given no reaction
ReentrantCancelAllPoints(cw) ==
  IF cw.w.aborted THEN cw
  ELSE IF cw.w.state[Recognizer] \in {CANCELLED, COMPLETED}
  THEN IF Len(cw.w.public_points[Recognizer]) # 0
       THEN [w |-> Abort(cw.w), c |-> cw.c]
       ELSE [w |-> set_state_authoritative(
                     [cw.w EXCEPT !.points[Recognizer] = <<>>],
                     Recognizer, WAITING),
             c |-> cw.c]
  ELSE IF Len(cw.c.emission_points) # 0
  THEN [w |-> Abort(cw.w), c |-> cw.c]
  ELSE IF Len(cw.w.public_points[Recognizer]) = 0 THEN cw
  ELSE [w |-> DropAllPoints(
                [cw.w EXCEPT !.emitted =
                   Append(@, [type |-> "points_cancelled",
                              gesture |-> Recognizer,
                              points |-> cw.w.public_points[Recognizer]])],
                Recognizer),
        c |-> cw.c]

\* clutter_gesture_set_actor called while priv->emission_points may be in use
ReentrantSetActor(cw) ==
  IF Len(cw.w.public_points[Recognizer]) # 0 THEN ReentrantCancelAllPoints(cw)
  ELSE cw

ReentrantSetState(cw, new_state) ==
  [w |-> set_state_request(cw.w, Recognizer, new_state), c |-> cw.c]

\* The body of the vfunc
React(cw, reaction) ==
  CASE reaction = "none" -> cw
    [] reaction = "set_state_recognizing" -> ReentrantSetState(cw, RECOGNIZING)
    [] reaction = "set_state_cancelled" -> ReentrantSetState(cw, CANCELLED)
    [] reaction = "remove_action" -> ReentrantSetActor(cw)
    [] reaction = "cancel_and_remove" ->
         ReentrantSetActor(ReentrantSetState(cw, CANCELLED))

\* g_ptr_array_add (priv->emission_points, ...), emit_points_vfunc,
\* g_ptr_array_set_size (priv->emission_points, 0)
ReentrantEmit(cw, vfunc, pubs, reaction) ==
  ClearEmission(
    React([w |-> [cw.w EXCEPT !.emitted =
                    Append(@, [type |-> vfunc, gesture |-> Recognizer,
                               points |-> pubs])],
           c |-> [cw.c EXCEPT !.emission_points = pubs]],
          reaction))

\* The vfunc call of the switch of clutter_gesture_handle_event;
\* crossing_event is called without the emission buffer
ReentrantAfterSwitch(cw, event, reached, reaction) ==
  IF cw.w.aborted \/ ~reached \/ event.type \in {ENTER, LEAVE} THEN cw
  ELSE ReentrantEmit(cw, VfuncOf(event.type), <<event.key>>, reaction)

ReentrantUnregister(cw, event, early) ==
  [w |-> UnregisterIfEnded(cw.w, Recognizer, event, early), c |-> cw.c]

\* clutter_gesture_handle_event for the gesture with reacting vfuncs
reentrant_handle_event(w, c, event, reaction) ==
  IF w.aborted \/ event.synthetic THEN [w |-> w, c |-> c]
  ELSE IF find_point(w, Recognizer, event.key) = 0 THEN [w |-> w, c |-> c]
  ELSE IF w.state[Recognizer] = WAITING THEN [w |-> Abort(w), c |-> c]
  ELSE ReentrantUnregister(
         ReentrantAfterSwitch(
           [w |-> HandleCountedEvent(
                    CountButtons(w, Recognizer, event,
                                 find_point(w, Recognizer, event.key)),
                    Recognizer, event, find_point(w, Recognizer, event.key),
                    find_public_point(w, Recognizer, event.key)),
            c |-> c],
           event, ReachesVfunc(w, Recognizer, event), reaction),
         event,
         ReturnedEarly(w, Recognizer, event, find_point(w, Recognizer, event.key)))

ReentrantOffered(r, c, event, reaction) ==
  IF r.ret THEN reentrant_handle_event(r.w, c, event, reaction)
  ELSE [w |-> r.w, c |-> c]

\* cancel_points_by_sequences for one point, with the reaction of its
\* points_cancelled call
reentrant_cancel_points_by_sequences(cw, key, reaction) ==
  IF cw.w.aborted THEN cw
  ELSE IF cw.w.state[Recognizer] \in {CANCELLED, COMPLETED}
  THEN IF Len(cw.w.public_points[Recognizer]) # 0
       THEN [w |-> Abort(cw.w), c |-> cw.c]
       ELSE [w |-> unregister_point(cw.w, Recognizer, key), c |-> cw.c]
  ELSE IF Len(cw.c.emission_points) # 0
  THEN [w |-> Abort(cw.w), c |-> cw.c]
  ELSE IF find_public_point(cw.w, Recognizer, key) = 0 THEN cw
  ELSE ReentrantUnregister(
         ReentrantEmit(cw, "points_cancelled", <<key>>, reaction),
         [type |-> TOUCH_CANCEL, key |-> key], FALSE)

\* A button press or a touch begin on the actor of the gesture
ReentrantBegin(key, reaction) ==
  /\ ~aborted
  /\ Holders(key) = {}
  /\ CommitClick(
       ReentrantOffered(
         clutter_gesture_should_handle_sequence(
           World(AllTrue), Recognizer,
           [type |-> BeginType(key), key |-> key, synthetic |-> FALSE]),
         subclass,
         [type |-> BeginType(key), key |-> key, synthetic |-> FALSE],
         reaction))
  /\ UNCHANGED <<can_not_cancel, recognize_independently_from,
                 require_failure_of>>

\* A further event of a sequence the gesture holds
ReentrantEvent(key, type, reaction) ==
  /\ ~aborted
  /\ Holders(key) # {}
  /\ type \in FollowTypes(key)
  /\ type = BUTTON_PRESS =>
       \A i \in 1..Len(points[Recognizer]) :
         points[Recognizer][i].n_buttons_pressed < MaxButtons
  /\ CommitClick(
       reentrant_handle_event(
         World(AllTrue), subclass,
         [type |-> type, key |-> key, synthetic |-> FALSE], reaction))
  /\ UNCHANGED <<can_not_cancel, recognize_independently_from,
                 require_failure_of>>

\* clutter_gesture_sequences_cancelled: the stage takes a sequence away
ReentrantSequenceCancelled(key, reaction) ==
  /\ ~aborted
  /\ Holders(key) # {}
  /\ CommitClick(
       reentrant_cancel_points_by_sequences(
         [w |-> World(AllTrue), c |-> subclass], key, reaction))
  /\ UNCHANGED <<can_not_cancel, recognize_independently_from,
                 require_failure_of>>

\* clutter_actor_remove_action from outside every vfunc
ReentrantRemoved ==
  /\ ~aborted
  /\ CommitClick(ReentrantSetActor([w |-> World(AllTrue), c |-> subclass]))
  /\ UNCHANGED <<can_not_cancel, recognize_independently_from,
                 require_failure_of>>

\* clutter_gesture_set_state from outside every vfunc
ReentrantRequested(new_state) ==
  /\ ~aborted
  /\ CommitClick(
       ReentrantSetState([w |-> World(AllTrue), c |-> subclass], new_state))
  /\ UNCHANGED <<can_not_cancel, recognize_independently_from,
                 require_failure_of>>

InitReentrant == InitGesture /\ subclass = ReentrantInstance

NextReentrant ==
  \/ \E k \in AllKeys, r \in Reactions : ReentrantBegin(k, r)
  \/ \E k \in AllKeys, t \in EventTypes, r \in Reactions :
       ReentrantEvent(k, t, r)
  \/ \E k \in AllKeys, r \in Reactions : ReentrantSequenceCancelled(k, r)
  \/ ReentrantRemoved
  \/ \E s \in {COMPLETED, CANCELLED} : ReentrantRequested(s)

SpecReentrant == InitReentrant /\ [][NextReentrant]_vars

\* ---- the emission buffer when a batch cancellation starts ----

\* C40: the emission buffer is empty whenever cancel_points_by_sequences or
\* cancel_all_points starts, also when a points_* callback of the gesture
\* triggers the cancellation: the assertions on its emptiness never fail.
EmissionBufferEmptyAtCancel ==
  subclass.type = "ReentrantGesture"
  => ~(aborted /\ Len(subclass.emission_points) # 0)

====
